---- MODULE Spec2Model ----
(***************************************************************************)
(* A model of the Sephora scraper: the two orchestrators (src/main.py and  *)
(* src/runner.py), the retrying transport (utils/request_helper.py) and    *)
(* the two link discoverers (parser/category_parser.py and                 *)
(* parser/similar_products.py), and the extractor functions of both        *)
(* entry points (the extractors package and parser/product_parser.py).     *)
(*                                                                         *)
(* Strings are sequences of tokens.  A URL is an origin token followed by  *)
(* path tokens, each path token being "/" and one segment; a blank is the  *)
(* token " ".  str.strip, the substring test "/product/" in s,             *)
(* str.startswith("/") and urllib.parse.urljoin are computed on tokens.    *)
(***************************************************************************)
EXTENDS Integers, Sequences, FiniteSets, TLC

(***************************************************************************)
(* Bounds of the model.                                                    *)
(***************************************************************************)
MaxAnchors == 2
MaxList == 4
MaxRetriesBound == 3

(***************************************************************************)
(* Tokens.                                                                 *)
(***************************************************************************)
H1 == "https://www.sephora.com"
H2 == "https://shop.example"
Origins == {H1, H2}
SP == " "
PRODUCT == "/product"
PathTokens == {PRODUCT, "/shop", "/P1", "/P2", "/P3", "/c1", "/c2", "/item"}
BADHREF == "http://["

(***************************************************************************)
(* Sequence helpers.                                                       *)
(***************************************************************************)
Range(s) == {s[i] : i \in 1..Len(s)}

SeqsUpTo(S, n) == UNION {[1..k -> S] : k \in 0..n}

RECURSIVE Concat(_)
Concat(ss) == IF ss = <<>> THEN <<>> ELSE Head(ss) \o Concat(Tail(ss))

NoDuplicates(s) == \A i, j \in 1..Len(s) : s[i] = s[j] => i = j

(***************************************************************************)
(* str.strip(): leading and trailing blanks are removed, inner ones stay.  *)
(***************************************************************************)
RECURSIVE lstrip(_)
lstrip(s) == IF s # <<>> /\ Head(s) = SP THEN lstrip(Tail(s)) ELSE s

RECURSIVE rstrip(_)
rstrip(s) ==
    IF s # <<>> /\ s[Len(s)] = SP THEN rstrip(SubSeq(s, 1, Len(s) - 1)) ELSE s

strip_buggy(s) == lstrip(s)

strip(s) == rstrip(lstrip(s))

normalize_url(url) == strip(url)

(***************************************************************************)
(* The substring test  "/product/" in s : the token "/product" followed by *)
(* another token that starts with "/".                                     *)
(***************************************************************************)
HasProductPath(s) ==
    \E i \in 1..Len(s) : s[i] = PRODUCT /\ i < Len(s) /\ s[i + 1] \in PathTokens

StartsWithSlash(s) == s # <<>> /\ s[1] \in PathTokens

IsAbsolute(s) == s # <<>> /\ s[1] \in Origins

(***************************************************************************)
(* urllib.parse.urljoin(base, href), for an absolute base.  An empty href  *)
(* gives the base, an absolute href itself, a rooted href the base's       *)
(* origin and the href, a relative href replaces the base's last segment.  *)
(* A malformed href (BADHREF) makes urljoin raise ValueError: UrljoinRaises.*)
(***************************************************************************)
UrljoinRaises(href) == href # <<>> /\ href[1] = BADHREF

BaseDir(base) == IF Len(base) <= 1 THEN base ELSE SubSeq(base, 1, Len(base) - 1)

Slashed(seg) == IF seg = "item" THEN "/item" ELSE seg

urljoin(base, href) ==
    IF href = <<>> THEN base
    ELSE IF ~IsAbsolute(base) THEN href
    ELSE IF IsAbsolute(href) THEN href
    ELSE IF StartsWithSlash(href) THEN <<base[1]>> \o href
    ELSE BaseDir(base) \o <<Slashed(href[1])>> \o Tail(href)

(***************************************************************************)
(* Order-preserving removal of duplicates, as both link parsers and both   *)
(* orchestrators do it with a seen-set and a result list.                  *)
(***************************************************************************)
RECURSIVE unique_loop(_, _, _)
unique_loop(links, seen, unique_links) ==
    IF links = <<>> THEN unique_links
    ELSE IF Head(links) \notin seen
         THEN unique_loop(Tail(links), seen \cup {Head(links)},
                          Append(unique_links, Head(links)))
         ELSE unique_loop(Tail(links), seen, unique_links)

unique(links) == unique_loop(links, {}, <<>>)

(***************************************************************************)
(* main.dedupe_urls: trim, drop the empty, keep the first occurrence.      *)
(***************************************************************************)
RECURSIVE dedupe_loop(_, _, _)
dedupe_loop(urls, seen, result) ==
    IF urls = <<>> THEN result
    ELSE LET u == strip(Head(urls)) IN
         IF u = <<>> THEN dedupe_loop(Tail(urls), seen, result)
         ELSE IF u \notin seen
              THEN dedupe_loop(Tail(urls), seen \cup {u}, Append(result, u))
              ELSE dedupe_loop(Tail(urls), seen, result)

dedupe_urls(urls) == dedupe_loop(urls, {}, <<>>)

(***************************************************************************)
(* runner.main, "Deduplicate product URLs": the same with normalize_url.   *)
(***************************************************************************)
RECURSIVE runner_unique_loop(_, _, _)
runner_unique_loop(product_urls, seen_urls, unique_product_urls) ==
    IF product_urls = <<>> THEN unique_product_urls
    ELSE LET norm == normalize_url(Head(product_urls)) IN
         IF norm # <<>> /\ norm \notin seen_urls
         THEN runner_unique_loop(Tail(product_urls), seen_urls \cup {norm},
                                 Append(unique_product_urls, norm))
         ELSE runner_unique_loop(Tail(product_urls), seen_urls, unique_product_urls)

runner_unique(product_urls) == runner_unique_loop(product_urls, {}, <<>>)

(***************************************************************************)
(* Pages.  A page has its JSON-LD shape (ld), its anchors with an href     *)
(* attribute in document order, each inside section sec (0: in no section  *)
(* or div), and the visible text of each section, a sequence of words.     *)
(***************************************************************************)
Lower(w) ==
    CASE w = "You" -> "you"
      [] w = "May" -> "may"
      [] w = "Also" -> "also"
      [] w = "Like" -> "like"
      [] w = "Similar" -> "similar"
      [] w = "RECOMMENDED" -> "recommended"
      [] w = "Out" -> "out"
      [] w = "Jan" -> "jan"
      [] w = "January" -> "january"
      [] w = "Feb" -> "feb"
      [] w = "May" -> "may"
      [] w = "Y" -> "y"
      [] w = "N" -> "n"
      [] w = "R" -> "r"
      [] OTHER -> w

LowerText(text) == [i \in 1..Len(text) |-> Lower(text[i])]

keywords ==
    << <<"you", "may", "also", "like">>, <<"similar">>, <<"recommended">>,
       <<"more", "like", "this">> >>

Contains(k, text) ==
    \E i \in 0..(Len(text) - Len(k)) : SubSeq(text, i + 1, i + Len(k)) = k

IsCandidateSection(text) ==
    \E n \in 1..Len(keywords) : Contains(keywords[n], LowerText(text))

(***************************************************************************)
(* CategoryParser.extract_product_links(html, base_url).                   *)
(***************************************************************************)
KeepProduct(full_url) == HasProductPath(full_url)

category_links(page, base_url) ==
    LET NonEmpty(a) == a.href # <<>>
        as == SelectSeq(page.anchors, NonEmpty)
        full == [i \in 1..Len(as) |-> urljoin(base_url, as[i].href)]
    IN  SelectSeq(full, KeepProduct)

extract_product_links(page, base_url) ==
    LET raised == \E i \in 1..Len(page.anchors) : UrljoinRaises(page.anchors[i].href)
    IN  [raised |-> raised,
         links  |-> IF raised THEN <<>> ELSE unique(category_links(page, base_url))]

(***************************************************************************)
(* SimilarProductsParser.extract_similar_product_links(html, base_url).    *)
(***************************************************************************)
candidate_sections_all(page) == [i \in 1..Len(page.sections) |-> i]

candidate_sections(page) ==
    LET All == [i \in 1..Len(page.sections) |-> i]
        Cand(i) == IsCandidateSection(page.sections[i])
    IN  SelectSeq(All, Cand)

section_anchors(page, s) ==
    LET In(a) == a.sec = s IN SelectSeq(page.anchors, In)

similar_links(page, base_url) ==
    LET cs == candidate_sections(page)
        per == [n \in 1..Len(cs) |->
                  LET as == section_anchors(page, cs[n])
                      full == [i \in 1..Len(as) |-> urljoin(base_url, as[i].href)]
                  IN  SelectSeq(full, KeepProduct)]
    IN  Concat(per)

extract_similar_product_links(page, base_url) ==
    LET cs == candidate_sections(page)
        raised == \E n \in 1..Len(cs) :
                     \E i \in 1..Len(page.anchors) :
                         /\ page.anchors[i].sec = cs[n]
                         /\ UrljoinRaises(page.anchors[i].href)
    IN  [raised |-> raised,
         links  |-> IF raised THEN <<>> ELSE unique(similar_links(page, base_url))]

(***************************************************************************)
(* runner.discover_product_urls_from_category, given the fetched html      *)
(* (None when the fetch failed).  The raw href is tested, a rooted href    *)
(* gets the fixed origin, anything else is kept as written.                *)
(***************************************************************************)
max_products == 100

RECURSIVE runner_collect(_, _)
runner_collect(anchors, urls) ==
    IF anchors = <<>> THEN urls
    ELSE LET href == Head(anchors).href
             next == IF HasProductPath(href)
                     THEN Append(urls, IF StartsWithSlash(href)
                                       THEN <<H1>> \o href ELSE href)
                     ELSE urls
         IN  IF Len(next) >= max_products THEN next
             ELSE runner_collect(Tail(anchors), next)

discover_product_urls_from_category(category_url_raw, html, page) ==
    LET category_url == normalize_url(category_url_raw) IN
    IF html \in {"none", "empty"} THEN <<category_url>>
    ELSE LET deduped == runner_unique(runner_collect(page.anchors, <<>>)) IN
         IF deduped = <<>> THEN <<category_url>> ELSE deduped

(***************************************************************************)
(* JSON-LD shapes of a product page and where each extractor raises.       *)
(*   "none"            no JSON-LD Product object                           *)
(*   "product"         a well-formed Product object                        *)
(*   "name_num"        Product whose name is a number                      *)
(*   "offers_list_str" Product whose offers is a list holding a string     *)
(*   "pricespec_str"   Product whose offers is an object without price and *)
(*                     with a string priceSpecification                    *)
(* ProductParser._build_variants calls offer.get on every entry of an      *)
(* offers list; parse_product_info calls .get on priceSpecification and    *)
(* clean_text (text.split) on the name.                                    *)
(***************************************************************************)
LdShapes == {"none", "product", "name_num", "offers_list_str", "pricespec_str"}

build_variants_raises(ld) == ld = "offers_list_str"

parse_product_info_raises(ld) == ld \in {"name_num", "pricespec_str"}

parse_product_raises(page) == build_variants_raises(page.ld)

process_product_raises(page) == parse_product_info_raises(page.ld)

ProductRecordNoUrl(page, url) == [source_url |-> <<>>, ld |-> page.ld]

ProductRecord(page, url) == [source_url |-> url, ld |-> page.ld]

(***************************************************************************)
(* The web of a run: the page behind each URL.  Any other URL, and any     *)
(* string that is no absolute URL, cannot be fetched.                      *)
(***************************************************************************)
P1 == <<H1, PRODUCT, "/P1">>
P2 == <<H1, PRODUCT, "/P2">>
P3 == <<H1, PRODUCT, "/P3">>
C1 == <<H1, "/shop", "/c1">>
C2 == <<H2, "/shop", "/c2">>

A(href, sec) == [href |-> href, sec |-> sec]

Pg(ld, anchors, sections) == [ld |-> ld, anchors |-> anchors, sections |-> sections]

WebA ==
    (P1 :> Pg("product",
              <<A(<<PRODUCT, "/P3">>, 1), A(<<PRODUCT, "/P1">>, 1)>>,
              << <<"You", "May", "Also", "Like">> >>)) @@
    (P2 :> Pg("none",
              <<A(P3, 1), A(<<"/shop", "/c1">>, 1), A(<<PRODUCT, "/P1">>, 0)>>,
              << <<"Similar", "products">> >>)) @@
    (P3 :> Pg("product",
              <<A(<<PRODUCT, "/P2">>, 1)>>,
              << <<"reviews">> >>)) @@
    (C1 :> Pg("none",
              <<A(<<PRODUCT, "/P1">>, 0), A(<<"/shop", "/c2">>, 0),
                A(P1, 0), A(<<PRODUCT, "/P2">>, 0)>>,
              <<>>)) @@
    (C2 :> Pg("none",
              <<A(<<PRODUCT, "/P3">>, 0), A(<<"item", PRODUCT, "/P1">>, 0)>>,
              <<>>))

WebB ==
    (P1 :> Pg("name_num",
              <<A(<<PRODUCT, "/P2">>, 1), A(<<BADHREF>>, 1)>>,
              << <<"RECOMMENDED">> >>)) @@
    (P2 :> Pg("offers_list_str",
              <<A(<<PRODUCT, "/P3">>, 1)>>,
              << <<"more", "like", "this">> >>)) @@
    (P3 :> Pg("pricespec_str", <<>>, <<>>)) @@
    (C1 :> Pg("none", <<A(<<"/shop", "/c2">>, 0), A(<<>>, 0)>>, <<>>)) @@
    (C2 :> Pg("none", <<A(<<BADHREF>>, 0)>>, <<>>))

(* Pages that link to each other and to themselves. *)
WebC ==
    (P1 :> Pg("product", <<A(<<PRODUCT, "/P2">>, 1)>>, << <<"Similar">> >>)) @@
    (P2 :> Pg("product",
              <<A(<<PRODUCT, "/P1">>, 1), A(P2, 1)>>,
              << <<"you", "may", "also", "like">> >>)) @@
    (P3 :> Pg("product", <<A(P1, 1), A(P3, 1)>>, << <<"recommended">> >>)) @@
    (C1 :> Pg("none", <<A(P3, 0)>>, <<>>)) @@
    (C2 :> Pg("none", <<>>, <<>>))

Webs == {WebA, WebB, WebC}

(***************************************************************************)
(* The input JSON.  A value is a list of strings, absent, null or          *)
(* something else (a string, a number, an object), which Python's "or" and *)
(* "not" read as true or false.                                            *)
(***************************************************************************)
JAbsent == [t |-> "absent", truthy |-> FALSE, items |-> <<>>]
JNull == [t |-> "null", truthy |-> FALSE, items |-> <<>>]
JList(xs) == [t |-> "list", truthy |-> xs # <<>>, items |-> xs]
JOther(truthy) == [t |-> "other", truthy |-> truthy, items |-> <<>>]

PyOr(a, b) == IF a.truthy THEN a ELSE b

SetDefault(v, d) == IF v.t = "absent" THEN d ELSE v

IsList(v) == v.t = "list"

ProductLists ==
    { <<>>, <<P1>>, <<<<SP>> \o P1, P1, P2>>, <<P3, <<SP>>, P2 \o <<SP>> >>,
      <<P1, P2, P3>>, <<<<"/P1">>>> }

CategoryLists == { <<>>, <<C1>>, <<C2, C1 \o <<SP>> >> }

Payloads ==
    { [root |-> "object", product_urls |-> JList(p), products |-> JAbsent,
       category_urls |-> JList(c), categories |-> JAbsent, include_similar |-> s] :
         p \in ProductLists, c \in CategoryLists, s \in BOOLEAN }
    \cup
    { [root |-> r, product_urls |-> p, products |-> q,
       category_urls |-> c, categories |-> JAbsent, include_similar |-> FALSE] :
         r \in {"object", "array"},
         p \in {JAbsent, JNull, JOther(TRUE), JOther(FALSE), JList(<<P1>>)},
         q \in {JAbsent, JList(<<P2>>)},
         c \in {JAbsent, JOther(TRUE), JOther(FALSE), JList(<<C1>>)} }

(***************************************************************************)
(* State of one run of an orchestrator.                                    *)
(*   entry      "main" (src/main.py) or "runner" (src/runner.py)           *)
(*   pc         "start", "categories", "products", then one of             *)
(*              "done" (exported), "nothing" (returned without export),    *)
(*              "aborted" (input validation raised), "crashed" (an         *)
(*              exception left a loop)                                     *)
(*   product_urls   the worklist (runner: product_urls, then               *)
(*              unique_product_urls), pi the loop's position in it         *)
(*   dataset    all_products (main) / dataset (runner)                     *)
(*   fetched    every fetch call so far: the URL, whether it was fetched   *)
(*              as a category or a product, what came back, the URLs the   *)
(*              step added to the worklist, whether it appended a record   *)
(*              and whether the run died in that step                      *)
(*   exported   the files written: format and records                      *)
(***************************************************************************)
VARIABLES entry, payload, web, pc, include_similar, category_urls, ci,
          product_urls, pi, processed_product_urls, dataset, fetched, exported

orchVars == <<entry, payload, web, pc, include_similar, category_urls, ci,
              product_urls, pi, processed_product_urls, dataset, fetched, exported>>

(***************************************************************************)
(* State of one call of RequestHelper.fetch_html.                          *)
(*   max_retries, backoff_factor   the helper's settings (backoff in       *)
(*              tenths of a second)                                        *)
(*   attempt    the loop variable of "for attempt in range(1, n + 1)"      *)
(*   responses  what each request issued so far met: "200" (with a body),  *)
(*              "200-empty", "404" (any other status) or "exc" (a          *)
(*              requests.RequestException)                                 *)
(*   sleeps     the time.sleep calls so far                                *)
(*   fpc        "loop" or "returned"; fetch_result the returned value      *)
(***************************************************************************)
VARIABLES max_retries, backoff_factor, attempt, responses, sleeps, fpc, fetch_result

fetchVars == <<max_retries, backoff_factor, attempt, responses, sleeps, fpc, fetch_result>>

(***************************************************************************)
(* State of one call of a link discoverer: the page, its URL, the call     *)
(* made (l_op) and what it returned.                                       *)
(***************************************************************************)
VARIABLES l_page, l_base, l_op, l_html, l_out

linkVars == <<l_page, l_base, l_op, l_html, l_out>>

(***************************************************************************)
(* State of one use of URL deduplication: the input list, the call made    *)
(* (d_op), its result, and in d_prev the result of the first call once the *)
(* function has been applied again to its own result.                      *)
(***************************************************************************)
VARIABLES d_urls, d_op, d_out, d_prev

dedupeVars == <<d_urls, d_op, d_out, d_prev>>

(***************************************************************************)
(* State of one call of an extractor function (statistics, structured-data *)
(* selection, number and date parsing, review and question scanning): the  *)
(* call made (x_fn), its arguments (x_arg) and what it returned (x_res).   *)
(***************************************************************************)
VARIABLES x_fn, x_arg, x_res

extractVars == <<x_fn, x_arg, x_res>>

vars == <<orchVars, fetchVars, linkVars, dedupeVars, extractVars>>

nonOrch == <<fetchVars, linkVars, dedupeVars, extractVars>>
nonFetch == <<orchVars, linkVars, dedupeVars, extractVars>>
nonLink == <<orchVars, fetchVars, dedupeVars, extractVars>>
nonDedupe == <<orchVars, fetchVars, linkVars, extractVars>>
nonExtract == <<orchVars, fetchVars, linkVars, dedupeVars>>

ExtractIdle == x_fn = "idle" /\ x_arg = <<>> /\ x_res = <<>>

FetchIdle ==
    /\ max_retries = 0 /\ backoff_factor = 0 /\ attempt = 1 /\ responses = <<>>
    /\ sleeps = <<>> /\ fpc = "idle" /\ fetch_result = "none"

LinkIdle ==
    /\ l_page = Pg("none", <<>>, <<>>) /\ l_base = <<>> /\ l_op = "idle"
    /\ l_html = "none" /\ l_out = [raised |-> FALSE, links |-> <<>>]

DedupeIdle == d_urls = <<>> /\ d_op = "idle" /\ d_out = <<>> /\ d_prev = <<>>

OrchIdle ==
    /\ entry = "main" /\ payload = [root |-> "array", product_urls |-> JAbsent,
                                    products |-> JAbsent, category_urls |-> JAbsent,
                                    categories |-> JAbsent, include_similar |-> FALSE]
    /\ web = WebA /\ pc = "idle" /\ include_similar = FALSE /\ category_urls = <<>>
    /\ ci = 1 /\ product_urls = <<>> /\ pi = 1 /\ processed_product_urls = {}
    /\ dataset = <<>> /\ fetched = <<>> /\ exported = <<>>

OrchInit ==
    /\ entry \in {"main", "runner"}
    /\ payload \in Payloads
    /\ web \in Webs
    /\ pc = "start"
    /\ include_similar = FALSE
    /\ category_urls = <<>>
    /\ ci = 1
    /\ product_urls = <<>>
    /\ pi = 1
    /\ processed_product_urls = {}
    /\ dataset = <<>>
    /\ fetched = <<>>
    /\ exported = <<>>

(***************************************************************************)
(* What a fetch can return: None, the empty text, or the page.             *)
(***************************************************************************)
Responses(url) ==
    IF IsAbsolute(url) /\ url \in DOMAIN web THEN {"none", "empty", "page"} ELSE {"none"}

NotHtml(html) == html \in {"none", "empty"}

Fetch(url, as, html, added, recorded, crashed) ==
    [url |-> url, as |-> as, html |-> html, added |-> added,
     recorded |-> recorded, crashed |-> crashed]

(***************************************************************************)
(* main.load_input_payload and main.main up to the category loop.          *)
(***************************************************************************)
MainLoad ==
    /\ entry = "main" /\ pc = "start"
    /\ LET pu == SetDefault(payload.product_urls, JList(<<>>))
           cu == SetDefault(payload.category_urls, JList(<<>>))
           valid == payload.root = "object" /\ IsList(pu) /\ IsList(cu)
           ps == dedupe_urls(pu.items)
           cs == dedupe_urls(cu.items)
       IN  IF ~valid
           THEN /\ pc' = "aborted"
                /\ UNCHANGED <<product_urls, category_urls, include_similar>>
           ELSE /\ product_urls' = ps
                /\ category_urls' = cs
                /\ include_similar' = payload.include_similar
                /\ pc' = IF ps = <<>> /\ cs = <<>> THEN "nothing" ELSE "categories"
    /\ UNCHANGED nonOrch
    /\ UNCHANGED <<entry, payload, web, ci, pi, processed_product_urls, dataset,
                   fetched, exported>>

(***************************************************************************)
(* main.main, one pass of "for category_url in category_urls".             *)
(***************************************************************************)
MainCategory ==
    /\ entry = "main" /\ pc = "categories" /\ ci <= Len(category_urls)
    /\ LET category_url == category_urls[ci] IN
       \E category_html \in Responses(category_url) :
          LET r == extract_product_links(web[category_url], category_url) IN
          IF NotHtml(category_html)
          THEN /\ fetched' = Append(fetched,
                      Fetch(category_url, "category", category_html, <<>>, FALSE, FALSE))
               /\ UNCHANGED <<product_urls, pc>>
          ELSE IF r.raised
          THEN /\ fetched' = Append(fetched,
                      Fetch(category_url, "category", category_html, <<>>, FALSE, TRUE))
               /\ pc' = "crashed"
               /\ UNCHANGED product_urls
          ELSE /\ fetched' = Append(fetched,
                      Fetch(category_url, "category", category_html, r.links, FALSE, FALSE))
               /\ product_urls' = product_urls \o r.links
               /\ UNCHANGED pc
    /\ ci' = ci + 1
    /\ UNCHANGED nonOrch
    /\ UNCHANGED <<entry, payload, web, include_similar, category_urls, pi,
                   processed_product_urls, dataset, exported>>

(***************************************************************************)
(* main.main, "product_urls = dedupe_urls(product_urls)".                  *)
(***************************************************************************)
MainDedupe ==
    /\ entry = "main" /\ pc = "categories" /\ ci > Len(category_urls)
    /\ product_urls' = dedupe_urls(product_urls)
    /\ pc' = "products"
    /\ UNCHANGED nonOrch
    /\ UNCHANGED <<entry, payload, web, include_similar, category_urls, ci, pi,
                   processed_product_urls, dataset, fetched, exported>>

(***************************************************************************)
(* main.main, one pass of "for url in product_urls".  The list grows while *)
(* the loop runs over it.                                                  *)
(***************************************************************************)
QueueSimilarAlways(s_url, processed) == TRUE

QueueSimilar(s_url, processed) == s_url \notin processed

AlreadyProcessedNever(url, processed) == FALSE

(* "if url in processed_product_urls: continue" *)
AlreadyProcessed(url, processed) == url \in processed

MainProduct ==
    /\ entry = "main" /\ pc = "products" /\ pi <= Len(product_urls)
    /\ LET url == product_urls[pi] IN
       IF AlreadyProcessed(url, processed_product_urls)
       THEN UNCHANGED <<product_urls, processed_product_urls, dataset, fetched>>
       ELSE \E html \in Responses(url) :
          IF NotHtml(html)
          THEN /\ fetched' = Append(fetched, Fetch(url, "product", html, <<>>, FALSE, FALSE))
               /\ UNCHANGED <<product_urls, processed_product_urls, dataset>>
          ELSE IF parse_product_raises(web[url])
          THEN /\ fetched' = Append(fetched, Fetch(url, "product", html, <<>>, FALSE, FALSE))
               /\ UNCHANGED <<product_urls, processed_product_urls, dataset>>
          ELSE LET processed == processed_product_urls \cup {url}
                   r == extract_similar_product_links(web[url], url)
                   Queue(s_url) == QueueSimilar(s_url, processed)
                   added == IF include_similar /\ ~r.raised
                            THEN SelectSeq(r.links, Queue) ELSE <<>>
               IN  /\ dataset' = Append(dataset, ProductRecord(web[url], url))
                   /\ processed_product_urls' = processed
                   /\ product_urls' = product_urls \o added
                   /\ fetched' = Append(fetched,
                          Fetch(url, "product", html, added, TRUE, FALSE))
    /\ pi' = pi + 1
    /\ UNCHANGED nonOrch
    /\ UNCHANGED <<entry, payload, web, pc, include_similar, category_urls, ci, exported>>

(***************************************************************************)
(* main.main after the loop: "if not all_products: return", else export.   *)
(***************************************************************************)
ShouldExportAlways(products) == TRUE

ShouldExport(products) == products # <<>>

ExportFiles(formats, products) ==
    LET Known(f) == f \in {"json", "csv", "html"}
        fs == SelectSeq(formats, Known)
    IN  [i \in 1..Len(fs) |-> [format |-> fs[i], data |-> products]]

MainFinish ==
    /\ entry = "main" /\ pc = "products" /\ pi > Len(product_urls)
    /\ IF ~ShouldExport(dataset)
       THEN pc' = "nothing" /\ UNCHANGED exported
       ELSE \E export_format \in {<<"json">>, <<"csv">>, <<"json", "csv">>} :
               /\ exported' = ExportFiles(export_format, dataset)
               /\ pc' = "done"
    /\ UNCHANGED nonOrch
    /\ UNCHANGED <<entry, payload, web, include_similar, category_urls, ci,
                   product_urls, pi, processed_product_urls, dataset, fetched>>

(***************************************************************************)
(* runner.load_inputs and runner.main up to the category loop.             *)
(***************************************************************************)
RunnerLoad ==
    /\ entry = "runner" /\ pc = "start"
    /\ LET pu == PyOr(PyOr(payload.product_urls, payload.products), JList(<<>>))
           cu == PyOr(PyOr(payload.category_urls, payload.categories), JList(<<>>))
           valid == payload.root = "object" /\ IsList(pu) /\ IsList(cu)
       IN  IF ~valid
           THEN /\ pc' = "aborted"
                /\ UNCHANGED <<product_urls, category_urls>>
           ELSE /\ product_urls' = pu.items
                /\ category_urls' = cu.items
                /\ pc' = "categories"
    /\ UNCHANGED nonOrch
    /\ UNCHANGED <<entry, payload, web, include_similar, ci, pi,
                   processed_product_urls, dataset, fetched, exported>>

(***************************************************************************)
(* runner.main, one pass of "for category_url in category_urls":           *)
(* discover_product_urls_from_category with its fetch.                     *)
(***************************************************************************)
RunnerCategory ==
    /\ entry = "runner" /\ pc = "categories" /\ ci <= Len(category_urls)
    /\ LET category_url == normalize_url(category_urls[ci]) IN
       \E html \in Responses(category_url) :
          LET discovered == discover_product_urls_from_category(
                                category_urls[ci], html,
                                IF NotHtml(html) THEN Pg("none", <<>>, <<>>)
                                ELSE web[category_url])
          IN  /\ product_urls' = product_urls \o discovered
              /\ fetched' = Append(fetched,
                     Fetch(category_url, "category", html, discovered, FALSE, FALSE))
    /\ ci' = ci + 1
    /\ UNCHANGED nonOrch
    /\ UNCHANGED <<entry, payload, web, pc, include_similar, category_urls, pi,
                   processed_product_urls, dataset, exported>>

(***************************************************************************)
(* runner.main, "Deduplicate product URLs".                                *)
(***************************************************************************)
RunnerDedupe ==
    /\ entry = "runner" /\ pc = "categories" /\ ci > Len(category_urls)
    /\ product_urls' = runner_unique(product_urls)
    /\ pc' = "products"
    /\ UNCHANGED nonOrch
    /\ UNCHANGED <<entry, payload, web, include_similar, category_urls, ci, pi,
                   processed_product_urls, dataset, fetched, exported>>

(***************************************************************************)
(* runner.main, one pass of "for url in unique_product_urls":              *)
(* process_product, which nothing wraps in a try.                          *)
(***************************************************************************)
RunnerProduct ==
    /\ entry = "runner" /\ pc = "products" /\ pi <= Len(product_urls)
    /\ LET url == normalize_url(product_urls[pi]) IN
       \E html \in Responses(url) :
          IF NotHtml(html)
          THEN /\ fetched' = Append(fetched, Fetch(url, "product", html, <<>>, FALSE, FALSE))
               /\ UNCHANGED <<dataset, pc>>
          ELSE IF process_product_raises(web[url])
          THEN /\ fetched' = Append(fetched, Fetch(url, "product", html, <<>>, FALSE, TRUE))
               /\ pc' = "crashed"
               /\ UNCHANGED dataset
          ELSE /\ dataset' = Append(dataset, ProductRecord(web[url], url))
               /\ fetched' = Append(fetched, Fetch(url, "product", html, <<>>, TRUE, FALSE))
               /\ UNCHANGED pc
    /\ pi' = pi + 1
    /\ UNCHANGED nonOrch
    /\ UNCHANGED <<entry, payload, web, include_similar, category_urls, ci,
                   product_urls, processed_product_urls, exported>>

(***************************************************************************)
(* runner.main after the loop: "if not dataset: return", else              *)
(* export_dataset with the formats of the settings.                        *)
(***************************************************************************)
RunnerFinish ==
    /\ entry = "runner" /\ pc = "products" /\ pi > Len(product_urls)
    /\ IF ~ShouldExport(dataset)
       THEN pc' = "nothing" /\ UNCHANGED exported
       ELSE \E formats \in {<<"json">>, <<"csv", "html">>, <<"xml">>} :
               /\ exported' = ExportFiles(formats, dataset)
               /\ pc' = "done"
    /\ UNCHANGED nonOrch
    /\ UNCHANGED <<entry, payload, web, include_similar, category_urls, ci,
                   product_urls, pi, processed_product_urls, dataset, fetched>>

Init == OrchInit /\ FetchIdle /\ LinkIdle /\ DedupeIdle /\ ExtractIdle

Next ==
    \/ MainLoad
    \/ MainCategory
    \/ MainDedupe
    \/ MainProduct
    \/ MainFinish
    \/ RunnerLoad
    \/ RunnerCategory
    \/ RunnerDedupe
    \/ RunnerProduct
    \/ RunnerFinish

Spec == Init /\ [][Next]_vars

(***************************************************************************)
(* Properties of a run of an orchestrator.                                 *)
(***************************************************************************)
Terminated == pc \in {"done", "nothing", "aborted", "crashed"}

ProductFetches == {i \in 1..Len(fetched) : fetched[i].as = "product"}

RecordedFetches ==
    LET Rec(f) == f.recorded IN SelectSeq(fetched, Rec)

RecordsOfFetches ==
    [i \in 1..Len(RecordedFetches) |->
        ProductRecord(web[RecordedFetches[i].url], RecordedFetches[i].url)]

\* C1: in one run no product URL string is passed to fetch more than once,
\* whether the earlier fetch succeeded or failed and also when the URL is
\* found again as a similar-product link.
C1_NoUrlFetchedTwice ==
    \A i, j \in ProductFetches : fetched[i].url = fetched[j].url => i = j

\* C2: an exception raised while extracting a product page never leaves the
\* per-URL loop, in main.main and in runner.main: no product step ends the run.
C2_NoExceptionLeavesProductLoop ==
    \A i \in ProductFetches : ~fetched[i].crashed

\* C3: a URL (category or product) whose fetch returned absent yields no
\* record, adds no URL to the product worklist and does not end the run.
C3_AbsentFetchIsSkipped ==
    \A i \in 1..Len(fetched) :
        fetched[i].html = "none" =>
            /\ fetched[i].added = <<>>
            /\ ~fetched[i].recorded
            /\ ~fetched[i].crashed

\* C4: a run whose dataset is empty when the product loop ends invokes no
\* export: it never reaches the exporting end and no file is written.
C4_NoExportOfEmptyDataset ==
    dataset = <<>> => (pc # "done" /\ exported = <<>>)

C4_Witness_AllFailedNoExport ==
    /\ pc = "nothing"
    /\ dataset = <<>>
    /\ \E i, j \in ProductFetches : fetched[i].html = "page" /\ fetched[j].html = "none"

\* C5: once the run has ended, if some product URL was fetched and parsed,
\* the run has exported, and the exported dataset is exactly the records of
\* the parsed URLs in processing order, whatever failed before or after.
C5_PartialSuccessIsExported ==
    (Terminated /\ RecordedFetches # <<>>) =>
        /\ pc = "done"
        /\ dataset = RecordsOfFetches
        /\ \A k \in 1..Len(exported) : exported[k].data = RecordsOfFetches

\* C6: when the input root is no object, or product_urls or category_urls is
\* given a value that is no list, the run aborts and never fetches anything.
SuppliedNonList(v) == v.t = "other"

InvalidInput ==
    \/ payload.root # "object"
    \/ SuppliedNonList(payload.product_urls)
    \/ SuppliedNonList(payload.category_urls)

C6_InvalidInputAbortsBeforeFetch ==
    InvalidInput => (fetched = <<>> /\ (Terminated => pc = "aborted"))

(***************************************************************************)
(* RequestHelper.fetch_html(url): one pass of the retry loop per step.     *)
(***************************************************************************)
RetrySettings == (0..MaxRetriesBound) \X {0, 1, 5}

Outcomes == {"200", "200-empty", "404", "exc"}

IsOk(outcome) == outcome \in {"200", "200-empty"}

TextOf(outcome) == IF outcome = "200" THEN "page" ELSE "empty"

sleep_time_constant(factor, n) == factor

(* sleep_time = self.backoff_factor * attempt *)
sleep_time(factor, n) == factor * n

InLoopOffByOne(n, limit) == n < limit

InLoop(n, limit) == n <= limit

FetchInit ==
    /\ \E rs \in RetrySettings : max_retries = rs[1] /\ backoff_factor = rs[2]
    /\ attempt = 1
    /\ responses = <<>>
    /\ sleeps = <<>>
    /\ fpc = "loop"
    /\ fetch_result = "none"

FetchAttempt ==
    /\ fpc = "loop" /\ InLoop(attempt, max_retries)
    /\ \E outcome \in Outcomes :
          /\ responses' = Append(responses, outcome)
          /\ IF IsOk(outcome)
             THEN /\ fetch_result' = TextOf(outcome)
                  /\ fpc' = "returned"
                  /\ UNCHANGED <<attempt, sleeps>>
             ELSE /\ sleeps' = IF attempt < max_retries
                               THEN Append(sleeps, sleep_time(backoff_factor, attempt))
                               ELSE sleeps
                  /\ attempt' = attempt + 1
                  /\ UNCHANGED <<fetch_result, fpc>>
    /\ UNCHANGED <<max_retries, backoff_factor>>
    /\ UNCHANGED nonFetch

FetchGiveUp ==
    /\ fpc = "loop" /\ ~InLoop(attempt, max_retries)
    /\ fetch_result' = "none"
    /\ fpc' = "returned"
    /\ UNCHANGED <<max_retries, backoff_factor, attempt, responses, sleeps>>
    /\ UNCHANGED nonFetch

InitFetch == FetchInit /\ OrchIdle /\ LinkIdle /\ DedupeIdle /\ ExtractIdle

NextFetch ==
    \/ FetchAttempt
    \/ FetchGiveUp

SpecFetch == InitFetch /\ [][NextFetch]_vars

AllFailed == \A k \in 1..Len(responses) : ~IsOk(responses[k])

\* C8: fetch_html issues at most max_retries requests; a non-200 response
\* and a transport exception are both failed attempts that are retried; it
\* returns the text of the first 200 response and requests nothing after it;
\* it returns absent exactly when all max_retries attempts failed.
C8_BoundedRetryFirstSuccess ==
    /\ Len(responses) <= max_retries
    /\ (AllFailed /\ Len(responses) < max_retries) => fpc = "loop"
    /\ \A k \in 1..Len(responses) :
          IsOk(responses[k]) =>
             /\ k = Len(responses)
             /\ fpc = "returned"
             /\ fetch_result = TextOf(responses[k])
    /\ fpc = "returned" =>
          ((fetch_result = "none") <=> (AllFailed /\ Len(responses) = max_retries))

C8_Witness_SuccessAfterBothFailures ==
    /\ fpc = "returned"
    /\ fetch_result = "page"
    /\ responses = <<"404", "exc", "200">>

(***************************************************************************)
(* One call of a link discoverer on a page.                                *)
(***************************************************************************)
LinkHrefs ==
    { <<>>, <<PRODUCT, "/P1">>, P1, <<"/shop", "/c2">>, <<"item", PRODUCT, "/P2">>,
      <<"item">>, <<BADHREF>> }

LinkTexts == { <<"You", "May", "Also", "Like">>, <<"reviews">>, <<"you", "may", "like">> }

LinkAnchors == { A(h, n) : h \in LinkHrefs, n \in 0..2 }

FiveAnchorPage ==
    Pg("none",
       <<A(<<"/shop", "/c2">>, 0), A(<<PRODUCT, "/P1">>, 1), A(<<"item">>, 0),
         A(P1, 2), A(<<>>, 0)>>,
       << <<"Similar", "products">>, <<"details">> >>)

LinkPages ==
    { Pg("none", as, ts) : as \in SeqsUpTo(LinkAnchors, MaxAnchors),
                          ts \in [1..2 -> LinkTexts] }
    \cup {FiveAnchorPage}

LinkBases == {C1, C2, P1}

LinkInit ==
    /\ l_page \in LinkPages
    /\ l_base \in LinkBases
    /\ l_op = "ready"
    /\ l_html = "none"
    /\ l_out = [raised |-> FALSE, links |-> <<>>]

LinkCategory ==
    /\ l_op = "ready"
    /\ l_op' = "category"
    /\ l_html' = "page"
    /\ l_out' = extract_product_links(l_page, l_base)
    /\ UNCHANGED <<l_page, l_base>>
    /\ UNCHANGED nonLink

LinkRunnerCategory ==
    /\ l_op = "ready"
    /\ \E html \in {"none", "empty", "page"} :
          /\ l_html' = html
          /\ l_out' = [raised |-> FALSE,
                       links |-> discover_product_urls_from_category(l_base, html, l_page)]
    /\ l_op' = "runner_category"
    /\ UNCHANGED <<l_page, l_base>>
    /\ UNCHANGED nonLink

LinkSimilar ==
    /\ l_op = "ready"
    /\ l_op' = "similar"
    /\ l_html' = "page"
    /\ l_out' = extract_similar_product_links(l_page, l_base)
    /\ UNCHANGED <<l_page, l_base>>
    /\ UNCHANGED nonLink

InitLinks == LinkInit /\ OrchIdle /\ FetchIdle /\ DedupeIdle /\ ExtractIdle

NextLinks ==
    \/ LinkCategory
    \/ LinkRunnerCategory
    \/ LinkSimilar

SpecLinks == InitLinks /\ [][NextLinks]_vars

Resolved(i) == urljoin(l_base, l_page.anchors[i].href)

FirstSeen(u) ==
    CHOOSE i \in 1..Len(l_page.anchors) :
        /\ Resolved(i) = u
        /\ \A j \in 1..(i - 1) : Resolved(j) # u

\* C9: the category discoverer returns exactly the hyperlink targets whose
\* resolution against the page's URL matches the product path, each once, in
\* first-seen order, and every URL it returns is absolute and matches the
\* product path.
C9_CategoryLinksExact ==
    (l_op \in {"category", "runner_category"} /\ l_html = "page" /\ ~l_out.raised) =>
        /\ Range(l_out.links) =
              {Resolved(i) : i \in {k \in 1..Len(l_page.anchors) : HasProductPath(Resolved(k))}}
        /\ NoDuplicates(l_out.links)
        /\ \A m, n \in 1..Len(l_out.links) :
              m < n => FirstSeen(l_out.links[m]) < FirstSeen(l_out.links[n])
        /\ \A m \in 1..Len(l_out.links) :
              IsAbsolute(l_out.links[m]) /\ HasProductPath(l_out.links[m])

InKeywordSection(a) ==
    /\ a.sec \in 1..Len(l_page.sections)
    /\ \E n \in 1..Len(keywords) : Contains(keywords[n], LowerText(l_page.sections[a.sec]))

\* C10: every URL the similar-products discoverer returns is the resolved
\* target of an anchor inside a section whose text contains a recommendation
\* keyword, and matches the product path; when no section contains a keyword
\* the result is the empty list and nothing is raised.
C10_SimilarLinksNeverFabricated ==
    l_op = "similar" =>
        /\ \A m \in 1..Len(l_out.links) :
              /\ HasProductPath(l_out.links[m])
              /\ \E i \in 1..Len(l_page.anchors) :
                    /\ InKeywordSection(l_page.anchors[i])
                    /\ l_out.links[m] = Resolved(i)
        /\ (\A s \in 1..Len(l_page.sections) :
               \A n \in 1..Len(keywords) :
                  ~Contains(keywords[n], LowerText(l_page.sections[s])))
           => (l_out.links = <<>> /\ ~l_out.raised)

C10_Witness_OnlySectionAnchorReturned ==
    /\ l_op = "similar"
    /\ l_out.links = <<P1>>
    /\ \E i \in 1..Len(l_page.anchors) :
          /\ ~InKeywordSection(l_page.anchors[i])
          /\ HasProductPath(Resolved(i))
          /\ Resolved(i) # P1

(***************************************************************************)
(* One use of URL deduplication on a list of strings, by main.dedupe_urls  *)
(* or by runner.main's loop, and then once more on its own result.         *)
(***************************************************************************)
DedupeStrings ==
    { <<"a">>, <<SP, "a", SP>>, <<"b">>, <<SP>>, <<>>, <<"a", SP, "b">>, <<"b", SP>> }

DedupeInit ==
    /\ d_urls \in SeqsUpTo(DedupeStrings, MaxList)
    /\ d_op = "ready"
    /\ d_out = <<>>
    /\ d_prev = <<>>

DedupeMain ==
    /\ d_op = "ready"
    /\ d_op' = "main"
    /\ d_out' = dedupe_urls(d_urls)
    /\ UNCHANGED <<d_urls, d_prev>>
    /\ UNCHANGED nonDedupe

DedupeRunner ==
    /\ d_op = "ready"
    /\ d_op' = "runner"
    /\ d_out' = runner_unique(d_urls)
    /\ UNCHANGED <<d_urls, d_prev>>
    /\ UNCHANGED nonDedupe

DedupeAgain ==
    /\ d_op \in {"main", "runner"}
    /\ d_prev' = d_out
    /\ d_out' = IF d_op = "main" THEN dedupe_urls(d_out) ELSE runner_unique(d_out)
    /\ d_op' = IF d_op = "main" THEN "main_twice" ELSE "runner_twice"
    /\ UNCHANGED d_urls
    /\ UNCHANGED nonDedupe

InitDedupe == DedupeInit /\ OrchIdle /\ FetchIdle /\ LinkIdle /\ ExtractIdle

NextDedupe ==
    \/ DedupeMain
    \/ DedupeRunner
    \/ DedupeAgain

SpecDedupe == InitDedupe /\ [][NextDedupe]_vars

IsTrimOf(t, s) ==
    \E i \in 1..(Len(s) + 1), j \in 0..Len(s) :
        /\ t = SubSeq(s, i, j)
        /\ \A k \in 1..Len(s) : (k < i \/ k > j) => s[k] = SP
        /\ t # <<>> => (t[1] # SP /\ t[Len(t)] # SP)

FirstOccurrence(t) ==
    CHOOSE i \in 1..Len(d_urls) :
        /\ IsTrimOf(t, d_urls[i])
        /\ \A j \in 1..(i - 1) : ~IsTrimOf(t, d_urls[j])

\* C7: URL deduplication trims each element, drops the ones that are then
\* empty, and returns each distinct trimmed string exactly once in the order
\* of its first occurrence; applied to its own result it changes nothing.
C7_DedupeTrimFirstOccurrence ==
    d_op # "ready" =>
        /\ \A m \in 1..Len(d_out) :
              d_out[m] # <<>> /\ \E i \in 1..Len(d_urls) : IsTrimOf(d_out[m], d_urls[i])
        /\ \A i \in 1..Len(d_urls) :
              IsTrimOf(<<>>, d_urls[i]) \/ \E m \in 1..Len(d_out) : IsTrimOf(d_out[m], d_urls[i])
        /\ NoDuplicates(d_out)
        /\ \A m, n \in 1..Len(d_out) :
              m < n => FirstOccurrence(d_out[m]) < FirstOccurrence(d_out[n])
        /\ d_op \in {"main_twice", "runner_twice"} => d_out = d_prev

C7_Witness_SpecExample ==
    /\ d_op = "main_twice"
    /\ d_urls = << <<"a">>, <<SP, "a", SP>>, <<"b">>, <<"a">> >>
    /\ d_out = << <<"a">>, <<"b">> >>

(***************************************************************************)
(* Statistics.  An optional value is <<>> (None) or <<v>>.  A rating is a  *)
(* number of hundredths of a star (4 stars = 400) and an average is the    *)
(* fraction n/d of hundredths, so that nothing is lost before rounding.    *)
(***************************************************************************)
None == <<>>

Some(v) == <<v>>

Val(o) == o[1]

Frac(n, d) == [n |-> n, d |-> d]

FracEq(a, b) == a.n * b.d = b.n * a.d

RECURSIVE Sum(_)
Sum(s) == IF s = <<>> THEN 0 ELSE Head(s) + Sum(Tail(s))

(***************************************************************************)
(* Python's round of n/d to a whole number: the nearest one, a tie going   *)
(* to the even one.  round(x, 2) is py_round of x counted in hundredths.   *)
(***************************************************************************)
py_round(n, d) ==
    LET q == n \div d
        r == n % d
    IN  IF 2 * r < d THEN q
        ELSE IF 2 * r > d THEN q + 1
        ELSE IF q % 2 = 0 THEN q ELSE q + 1

(***************************************************************************)
(* utils_format.parse_float and parse_int on what statistics read.  An     *)
(* element of the page is absent or present, and its text is a number or   *)
(* not; a review field is None or a number.                                *)
(***************************************************************************)
NoTag == [present |-> FALSE, numeric |-> FALSE, v |-> 0]

JunkTag == [present |-> TRUE, numeric |-> FALSE, v |-> 0]

NumTag(v) == [present |-> TRUE, numeric |-> TRUE, v |-> v]

parse_text_number(tag, default) == IF tag.numeric THEN tag.v ELSE default

parse_int(value, default) == IF value = None THEN default ELSE Val(value)

IsNumericRating(rating) == rating # None

numeric_ratings(reviews) ==
    LET Numeric(r) == IsNumericRating(r.rating)
        rs == SelectSeq(reviews, Numeric)
    IN  [i \in 1..Len(rs) |-> Val(rs[i].rating)]

build_statistics_from_reviews(reviews) ==
    LET review_count == Len(reviews)
        ratings == numeric_ratings(reviews)
    IN  IF review_count = 0
        THEN [average_rating |-> None, helpful_vote_count |-> None,
              not_helpful_vote_count |-> None, recommended_review_count |-> None,
              review_count |-> 0]
        ELSE [average_rating |->
                  IF ratings # <<>> THEN Some(Frac(Sum(ratings), Len(ratings))) ELSE None,
              helpful_vote_count |-> None,
              not_helpful_vote_count |-> None,
              recommended_review_count |-> None,
              review_count |-> review_count]

(***************************************************************************)
(* parse_statistics reads the page's summary: the overall_rating and       *)
(* total_reviews elements and the rows of the rating histogram, a row      *)
(* having one cell or two (a rating value and a count).  The record it     *)
(* returns has no recommended_review_count key.                            *)
(***************************************************************************)
RatingOrZero(rating) == IF rating = None THEN 0 ELSE Val(rating)

histogram_totals(rows) ==
    LET Full(row) == ~(row.cells < 2)
        full == SelectSeq(rows, Full)
    IN  [total_reviews |-> Sum([i \in 1..Len(full) |-> full[i].count]),
         weighted_sum |-> Sum([i \in 1..Len(full) |-> full[i].value * full[i].count])]

parse_statistics(page, reviews) ==
    LET tag_rating == IF page.overall_rating.present
                      THEN Frac(parse_text_number(page.overall_rating, 0), 1)
                      ELSE Frac(0, 1)
        tag_count == IF page.total_reviews.present
                     THEN parse_text_number(page.total_reviews, 0)
                     ELSE 0
        h == histogram_totals(page.histogram)
        total_rating == Sum([i \in 1..Len(reviews) |-> RatingOrZero(reviews[i].rating)])
        average_rating ==
            IF reviews = <<>>
            THEN IF page.histogram # <<>> /\ h.total_reviews > 0
                 THEN Frac(h.weighted_sum, h.total_reviews) ELSE tag_rating
            ELSE Frac(total_rating, Len(reviews))
        review_count ==
            IF reviews = <<>>
            THEN IF page.histogram # <<>> /\ h.total_reviews > 0
                 THEN h.total_reviews ELSE tag_count
            ELSE Len(reviews)
    IN  [average_rating |->
             IF average_rating.n # 0
             THEN Some(Frac(py_round(average_rating.n, average_rating.d), 1))
             ELSE Some(Frac(0, 1)),
         helpful_vote_count |->
             Some(Sum([i \in 1..Len(reviews) |-> parse_int(reviews[i].helpful_vote_count, 0)])),
         not_helpful_vote_count |->
             Some(Sum([i \in 1..Len(reviews) |-> parse_int(reviews[i].not_helpful_vote_count, 0)])),
         review_count |-> review_count,
         variant_count |-> 0]

(***************************************************************************)
(* Calls of the two statistics functions on bounded inputs.                *)
(***************************************************************************)
MaxReviews == 3

Row(cells, value, count) == [cells |-> cells, value |-> value, count |-> count]

StatRatings == {None, Some(0), Some(400), Some(500)}

StatReviews ==
    { [rating |-> r, helpful_vote_count |-> h, not_helpful_vote_count |-> n] :
          r \in StatRatings, h \in {None, Some(2)}, n \in {None, Some(1)} }

StatPages ==
    { [overall_rating |-> o, total_reviews |-> t, histogram |-> hs] :
          o \in {NoTag, JunkTag, NumTag(437)},
          t \in {NoTag, NumTag(12)},
          hs \in { <<>>, <<Row(1, 0, 0)>>, <<Row(2, 500, 0)>>,
                   <<Row(2, 500, 2), Row(2, 400, 1)>> } }

NoSummary == [overall_rating |-> NoTag, total_reviews |-> NoTag, histogram |-> <<>>]

StatsInit ==
    /\ x_fn = "ready"
    /\ \E reviews \in SeqsUpTo(StatReviews, MaxReviews), page \in StatPages :
           /\ reviews = <<>> \/ page = NoSummary
           /\ x_arg = [reviews |-> reviews, page |-> page]
    /\ x_res = <<>>

StatsFold ==
    /\ x_fn = "ready"
    /\ x_fn' = "build_statistics_from_reviews"
    /\ x_res' = build_statistics_from_reviews(x_arg.reviews)
    /\ UNCHANGED x_arg
    /\ UNCHANGED nonExtract

StatsPage ==
    /\ x_fn = "ready"
    /\ x_fn' = "parse_statistics"
    /\ x_res' = parse_statistics(x_arg.page, x_arg.reviews)
    /\ UNCHANGED x_arg
    /\ UNCHANGED nonExtract

InitStats == StatsInit /\ OrchIdle /\ FetchIdle /\ LinkIdle /\ DedupeIdle

NextStats ==
    \/ StatsFold
    \/ StatsPage

SpecStats == InitStats /\ [][NextStats]_vars

StatsCalled == x_fn \in {"build_statistics_from_reviews", "parse_statistics"}

FullyEmpty == x_arg.reviews = <<>> /\ x_arg.page = NoSummary

(***************************************************************************)
(* C11: on a fully empty input (no review, no summary element, no          *)
(* histogram) both statistics functions return average_rating and the      *)
(* vote counts as None, not zero, and review_count 0.                      *)
(***************************************************************************)
C11_EmptyStatisticsAreAbsent ==
    (StatsCalled /\ FullyEmpty) =>
        /\ x_res.average_rating = None
        /\ x_res.helpful_vote_count = None
        /\ x_res.not_helpful_vote_count = None
        /\ x_res.review_count = 0

CarriesRating(r) == r.rating # None

(***************************************************************************)
(* C12: over a non-empty review list both statistics functions return      *)
(* review_count = the number of reviews and average_rating = the mean of   *)
(* the ratings of the reviews that carry one (None when there is none).    *)
(***************************************************************************)
C12_MeanOverRatedReviews ==
    (StatsCalled /\ x_arg.reviews # <<>>) =>
        LET rated == SelectSeq(x_arg.reviews, CarriesRating)
            total == Sum([i \in 1..Len(rated) |-> Val(rated[i].rating)])
        IN  /\ x_res.review_count = Len(x_arg.reviews)
            /\ IF rated = <<>>
               THEN x_res.average_rating = None
               ELSE /\ x_res.average_rating # None
                    /\ FracEq(Val(x_res.average_rating), Frac(total, Len(rated)))

(***************************************************************************)
(* The structured-data locator.  A JSON-LD script holds one object or a    *)
(* list of items, an item being an object or something else (a string, a   *)
(* number, a nested list).  An object has a name, which tells objects      *)
(* apart, and an "@type": absent, one string or a list of strings.         *)
(***************************************************************************)
MaxScripts == 2
MaxItems == 2

TypeAbsent == [kind |-> "absent", names |-> <<>>]

TypeStr(name) == [kind |-> "str", names |-> <<name>>]

TypeList(names) == [kind |-> "list", names |-> names]

Obj(type, name) == [dict |-> TRUE, type |-> type, name |-> name]

NotAnObject == [dict |-> FALSE, type |-> TypeAbsent, name |-> "x"]

ScriptDict(obj) == [list |-> FALSE, items |-> <<obj>>]

ScriptList(items) == [list |-> TRUE, items |-> items]

(* utils.html_utils.extract_json_ld_objects: the objects of the scripts,   *)
(* the dict items of a list script one by one.                             *)
extract_json_ld_objects(scripts) ==
    LET IsDict(item) == item.dict
    IN  Concat([i \in 1..Len(scripts) |-> SelectSeq(scripts[i].items, IsDict)])

(* ProductParser._find_product_json *)
TypeHasProduct(t) ==
    IF t.kind = "list" THEN "Product" \in Range(t.names)
    ELSE t.kind = "str" /\ t.names[1] = "Product"

RECURSIVE _find_product_json(_)
_find_product_json(json_ld_objects) ==
    IF json_ld_objects = <<>> THEN None
    ELSE IF TypeHasProduct(Head(json_ld_objects).type) THEN Some(Head(json_ld_objects))
    ELSE _find_product_json(Tail(json_ld_objects))

(* extractors.product_parser._extract_ld_json_blocks keeps each script's   *)
(* data as one block; _find_product_ld compares "@type" with "Product".    *)
TypeEqualsProduct(t) == t.kind = "str" /\ t.names[1] = "Product"

RECURSIVE first_product_item(_)
first_product_item(items) ==
    IF items = <<>> THEN None
    ELSE IF Head(items).dict /\ TypeEqualsProduct(Head(items).type) THEN Some(Head(items))
    ELSE first_product_item(Tail(items))

RECURSIVE _find_product_ld(_)
_find_product_ld(blocks) ==
    IF blocks = <<>> THEN None
    ELSE LET block == Head(blocks)
             found == first_product_item(block.items)
         IN  IF found # None THEN found ELSE _find_product_ld(Tail(blocks))

LdObjects ==
    { Obj(TypeStr("Thing"), "a"), Obj(TypeStr("Product"), "a"), Obj(TypeStr("Product"), "b"),
      Obj(TypeList(<<"Thing", "Product">>), "a"), Obj(TypeList(<<"Thing", "Product">>), "b"),
      Obj(TypeList(<<"Thing">>), "a"), Obj(TypeAbsent, "a") }

LdScripts ==
    { ScriptDict(o) : o \in LdObjects } \cup
    { ScriptList(items) : items \in SeqsUpTo(LdObjects \cup {NotAnObject}, MaxItems) }

LocateInit ==
    /\ x_fn = "ready"
    /\ x_arg \in SeqsUpTo(LdScripts, MaxScripts)
    /\ x_res = <<>>

LocateMain ==
    /\ x_fn = "ready"
    /\ x_fn' = "_find_product_json"
    /\ x_res' = _find_product_json(extract_json_ld_objects(x_arg))
    /\ UNCHANGED x_arg
    /\ UNCHANGED nonExtract

LocateRunner ==
    /\ x_fn = "ready"
    /\ x_fn' = "_find_product_ld"
    /\ x_res' = _find_product_ld(x_arg)
    /\ UNCHANGED x_arg
    /\ UNCHANGED nonExtract

InitLocate == LocateInit /\ OrchIdle /\ FetchIdle /\ LinkIdle /\ DedupeIdle

NextLocate ==
    \/ LocateMain
    \/ LocateRunner

SpecLocate == InitLocate /\ [][NextLocate]_vars

DocumentObjects ==
    LET all == Concat([i \in 1..Len(x_arg) |-> x_arg[i].items])
        IsObject(item) == item.dict
    IN  SelectSeq(all, IsObject)

TaggedProduct(obj) ==
    \/ obj.type.kind = "str" /\ obj.type.names = <<"Product">>
    \/ obj.type.kind = "list" /\ \E k \in 1..Len(obj.type.names) : obj.type.names[k] = "Product"

(***************************************************************************)
(* C13: the selector of each entry point returns the first object of the   *)
(* document whose "@type" is "Product" or a list holding "Product", and    *)
(* None when no object is so tagged.                                       *)
(***************************************************************************)
C13_FirstProductObjectSelected ==
    (x_fn \in {"_find_product_json", "_find_product_ld"}) =>
        LET objs == DocumentObjects
            hits == {i \in 1..Len(objs) : TaggedProduct(objs[i])}
        IN  IF hits = {} THEN x_res = None
            ELSE x_res = Some(objs[CHOOSE i \in hits : \A j \in hits : i <= j])

(***************************************************************************)
(* The love count.  A text is a sequence of characters.                    *)
(*   runner: parse_number_with_suffix(text of the "loves" element)         *)
(*   main:   extract_numeric_from_text(content of the twitter:data2 meta)  *)
(* A stored love count is an int, a str or None.                           *)
(***************************************************************************)
MaxChars == 4

Digits == {"0", "1", "2", "5"}

DigitVal(c) == CASE c = "0" -> 0 [] c = "1" -> 1 [] c = "2" -> 2 [] OTHER -> 5

NumChars == Digits \cup {".", ","}

SuffixChars == {"k", "K", "m", "M"}

LoveChars == Digits \cup {".", ",", "k", "M", SP, "x"}

IntValue(n) == [t |-> "int", n |-> n, s |-> <<>>]

StrValue(s) == [t |-> "str", n |-> 0, s |-> s]

NoneValue == [t |-> "none", n |-> 0, s |-> <<>>]

RECURSIVE NumRun(_)
NumRun(s) == IF s # <<>> /\ Head(s) \in NumChars THEN <<Head(s)>> \o NumRun(Tail(s)) ELSE <<>>

Drop(s, n) == SubSeq(s, n + 1, Len(s))

Without(s, c) == LET Keep(x) == x # c IN SelectSeq(s, Keep)

Count(s, c) == Cardinality({i \in 1..Len(s) : s[i] = c})

RECURSIVE Pow10(_)
Pow10(k) == IF k = 0 THEN 1 ELSE 10 * Pow10(k - 1)

RECURSIVE DigitsValue(_, _)
DigitsValue(ds, acc) ==
    IF ds = <<>> THEN acc ELSE DigitsValue(Tail(ds), 10 * acc + DigitVal(Head(ds)))

(* float(number_str): raises ValueError unless the text is digits with at  *)
(* most one point; the value is n / d.                                     *)
float_raises(text) == Count(text, ".") > 1 \/ Without(text, ".") = <<>>

float(text) ==
    LET dot == IF Count(text, ".") = 0 THEN Len(text) + 1
               ELSE CHOOSE i \in 1..Len(text) : text[i] = "."
    IN  Frac(DigitsValue(Without(text, "."), 0), Pow10(IF dot >= Len(text) THEN 0 ELSE Len(text) - dot))

suffix_multiplier(suffix) ==
    IF suffix \in {"k", "K"} THEN 1000 ELSE IF suffix \in {"m", "M"} THEN 1000000 ELSE 1

(* NUMBER_WITH_SUFFIX_RE = ^\s*([\d.,]+)\s*([kKmM]?)\s*$ *)
NUMBER_WITH_SUFFIX_RE(text) ==
    LET s1 == lstrip(text)
        number_str == NumRun(s1)
        s2 == lstrip(Drop(s1, Len(number_str)))
        has_suffix == s2 # <<>> /\ Head(s2) \in SuffixChars
        s3 == IF has_suffix THEN Tail(s2) ELSE s2
    IN  [match |-> number_str # <<>> /\ lstrip(s3) = <<>>,
         number_str |-> number_str,
         suffix |-> IF has_suffix THEN Head(s2) ELSE ""]

parse_number_with_suffix(text, default) ==
    LET m == NUMBER_WITH_SUFFIX_RE(text)
        number_str == Without(m.number_str, ",")
    IN  IF text = <<>> THEN default
        ELSE IF ~m.match THEN default
        ELSE IF float_raises(number_str) THEN default
        ELSE LET value == float(number_str)
             IN  py_round(value.n * suffix_multiplier(m.suffix), value.d)

(* runner: extractors.product_parser.parse_product_info, love_count *)
runner_love_count(text) == IntValue(parse_number_with_suffix(strip(text), 0))

(* utils.html_utils.extract_numeric_from_text: re.search(r"[\d,.]+") *)
RECURSIVE extract_numeric_from_text(_)
extract_numeric_from_text(text) ==
    IF text = <<>> THEN <<>>
    ELSE IF Head(text) \in NumChars THEN NumRun(text)
    ELSE extract_numeric_from_text(Tail(text))

(* main: ProductParser._build_product_info, info.love_count *)
main_love_count(content) ==
    LET love_text == strip(content)
        love_number == extract_numeric_from_text(love_text)
    IN  IF love_number # <<>> THEN StrValue(love_number) ELSE NoneValue

LoveInit ==
    /\ x_fn = "ready"
    /\ x_arg \in SeqsUpTo(LoveChars, MaxChars)
    /\ x_res = <<>>

LoveRunner ==
    /\ x_fn = "ready"
    /\ x_fn' = "parse_product_info"
    /\ x_res' = runner_love_count(x_arg)
    /\ UNCHANGED x_arg
    /\ UNCHANGED nonExtract

LoveMain ==
    /\ x_fn = "ready"
    /\ x_fn' = "_build_product_info"
    /\ x_res' = main_love_count(x_arg)
    /\ UNCHANGED x_arg
    /\ UNCHANGED nonExtract

InitLove == LoveInit /\ OrchIdle /\ FetchIdle /\ LinkIdle /\ DedupeIdle

NextLove ==
    \/ LoveRunner
    \/ LoveMain

SpecLove == InitLove /\ [][NextLove]_vars

(***************************************************************************)
(* What the pattern "number, optional suffix" denotes, read off the text:  *)
(* blanks, then digits with thousands separators and at most one point,    *)
(* then blanks, an optional k or m in either case, and blanks.             *)
(***************************************************************************)
LoveParts(text) ==
    LET core == strip(text)
        last == IF core = <<>> THEN "" ELSE core[Len(core)]
        suffixed == last \in {"k", "K", "m", "M"}
        number == IF suffixed THEN strip(SubSeq(core, 1, Len(core) - 1)) ELSE core
        plain == Without(number, ",")
    IN  [wellformed |-> /\ number # <<>>
                        /\ \A i \in 1..Len(number) : number[i] \in Digits \cup {".", ","}
                        /\ \E i \in 1..Len(plain) : plain[i] \in Digits
                        /\ Count(plain, ".") <= 1,
         plain |-> plain,
         multiplier |-> IF last \in {"k", "K"} THEN 1000
                        ELSE IF last \in {"m", "M"} THEN 1000000 ELSE 1]

(***************************************************************************)
(* C14: the love count stored by either entry point is an integer; it is   *)
(* the nearest integer to number x multiplier when the text is a number    *)
(* with an optional k or m suffix, and 0 for any other text.               *)
(***************************************************************************)
C14_LoveCountSuffixExpanded ==
    (x_fn \in {"parse_product_info", "_build_product_info"}) =>
        LET parts == LoveParts(x_arg)
            point == IF Count(parts.plain, ".") = 0 THEN Len(parts.plain) + 1
                     ELSE CHOOSE i \in 1..Len(parts.plain) : parts.plain[i] = "."
            decimals == IF point >= Len(parts.plain) THEN 0 ELSE Len(parts.plain) - point
            scaled == DigitsValue(Without(parts.plain, "."), 0) * parts.multiplier
            unit == Pow10(decimals)
        IN  /\ x_res.t = "int"
            /\ IF parts.wellformed
               THEN /\ 2 * (x_res.n * unit - scaled) <= unit
                    /\ 2 * (scaled - x_res.n * unit) <= unit
               ELSE x_res.n = 0

(***************************************************************************)
(* Availability and price of a product.  A page has or has not the         *)
(* out-of-stock marker element (data-at="out_of_stock"), a visible text    *)
(* (its words), a price element, and in its Product object the offers:     *)
(* absent, one offer, or a list whose first entry is the offer.  An offer  *)
(* has an availability (absent, a string, or something else) and a price   *)
(* and a currency, each None or present.                                   *)
(***************************************************************************)
IN_STOCK == "http://schema.org/InStock"

OUT_OF_STOCK == "http://schema.org/OutOfStock"

PRE_ORDER == "http://schema.org/PreOrder"

NOT_A_STRING == "<not a str>"

Offers(kind, availability, price, currency) ==
    [kind |-> kind, availability |-> availability, price |-> price, currency |-> currency]

NoOffers == Offers("absent", "absent", None, None)

NoText == [none |-> TRUE, text |-> <<>>]

Text(tokens) == [none |-> FALSE, text |-> tokens]

(* "InStock" in availability or "instock" in availability.lower() *)
MentionsInStock(availability) == availability = IN_STOCK

(* "out of stock" in body_text or "sold out" in body_text, body lowered *)
MentionsOutOfStock(body) ==
    LET body_text == LowerText(body)
    IN  \/ Contains(<<"out", "of", "stock">>, body_text)
        \/ Contains(<<"sold", "out">>, body_text)

(* ProductParser._build_product_info: info.is_available and info.price *)
main_availability(page) ==
    LET offers == page.offers
        from_offers == offers.kind = "dict" /\ offers.availability \notin {"absent", NOT_A_STRING}
    IN  IF from_offers THEN MentionsInStock(offers.availability)
        ELSE ~MentionsOutOfStock(page.body)

main_price(page) ==
    LET offers == page.offers
    IN  IF offers.kind = "dict" /\ offers.price # None /\ Val(offers.price) # "0"
        THEN IF offers.currency # None
             THEN Text(<<Val(offers.price), SP, Val(offers.currency)>>)
             ELSE Text(<<Val(offers.price)>>)
        ELSE NoText

(* extractors.product_parser.parse_product_info: is_available and price *)
runner_availability(page) == ~page.marker

runner_price(page) ==
    LET offers == page.offers
        price_text ==
            IF offers.kind \in {"dict", "list"} /\ offers.price # None
               /\ (offers.kind = "list" \/ Val(offers.price) # "0")
            THEN <<Val(offers.price)>> ELSE <<>>
        falsy == price_text = <<>> \/ price_text = <<"0">>
    IN  IF falsy /\ page.price_tag # <<>> THEN Text(page.price_tag) ELSE Text(price_text)

AvailOffers ==
    {NoOffers} \cup
    { Offers(k, a, p, c) : k \in {"dict", "list"},
                           a \in {"absent", IN_STOCK, OUT_OF_STOCK, PRE_ORDER, NOT_A_STRING},
                           p \in {None, Some("0"), Some("25")},
                           c \in {None, Some("USD")} }

AvailBodies == { <<>>, <<"Out", "of", "stock">>, <<"sold", "out">>, <<"in", "stock">> }

AvailPages ==
    { [marker |-> m, body |-> b, price_tag |-> t, offers |-> o] :
          m \in BOOLEAN, b \in AvailBodies, t \in {<<>>, <<"$30">>}, o \in AvailOffers }

AvailInit ==
    /\ x_fn = "ready"
    /\ x_arg \in AvailPages
    /\ x_res = <<>>

AvailMain ==
    /\ x_fn = "ready"
    /\ x_fn' = "_build_product_info"
    /\ x_res' = [is_available |-> main_availability(x_arg), price |-> main_price(x_arg)]
    /\ UNCHANGED x_arg
    /\ UNCHANGED nonExtract

AvailRunner ==
    /\ x_fn = "ready"
    /\ x_fn' = "parse_product_info"
    /\ x_res' = [is_available |-> runner_availability(x_arg), price |-> runner_price(x_arg)]
    /\ UNCHANGED x_arg
    /\ UNCHANGED nonExtract

InitAvail == AvailInit /\ OrchIdle /\ FetchIdle /\ LinkIdle /\ DedupeIdle

NextAvail ==
    \/ AvailMain
    \/ AvailRunner

SpecAvail == InitAvail /\ [][NextAvail]_vars

OutOfStockPhrase ==
    \E i \in 1..Len(x_arg.body) :
        \/ /\ i + 2 <= Len(x_arg.body)
           /\ Lower(x_arg.body[i]) = "out" /\ Lower(x_arg.body[i + 1]) = "of"
           /\ Lower(x_arg.body[i + 2]) = "stock"
        \/ /\ i + 1 <= Len(x_arg.body)
           /\ Lower(x_arg.body[i]) = "sold" /\ Lower(x_arg.body[i + 1]) = "out"

(***************************************************************************)
(* C15: in both entry points is_available is true when the page has no     *)
(* out-of-stock marker element and no out-of-stock phrase, and false when  *)
(* the marker element is present; with offers.availability = InStock on    *)
(* such a page the price holds the offer's numeric value.                  *)
(***************************************************************************)
C15_AvailabilityFromMarkers ==
    (x_fn \in {"_build_product_info", "parse_product_info"}) =>
        /\ (~x_arg.marker /\ ~OutOfStockPhrase) => x_res.is_available
        /\ x_arg.marker => ~x_res.is_available
        /\ ( /\ ~x_arg.marker /\ ~OutOfStockPhrase
             /\ x_arg.offers.kind = "dict" /\ x_arg.offers.availability = IN_STOCK
             /\ x_arg.offers.price # None )
           => \E k \in 1..Len(x_res.price.text) : x_res.price.text[k] = Val(x_arg.offers.price)

(***************************************************************************)
(* Date normalisation.  A date text is a sequence of tokens: a word, a     *)
(* numeral (its number of digits w and its value v), a blank, a comma or a *)
(* hyphen.  datetime.strptime is computed directive by directive and       *)
(* raises ValueError (ok = FALSE) when the text does not match the format, *)
(* when text remains, or when the day does not exist in the month.         *)
(***************************************************************************)
Word(s) == [k |-> "word", w |-> 0, v |-> 0, s |-> s]

Numeral(w, v) == [k |-> "num", w |-> w, v |-> v, s |-> ""]

Punct(s) == [k |-> "punct", w |-> 0, v |-> 0, s |-> s]

month_abbr == <<"jan", "feb", "mar", "apr", "may", "jun",
                "jul", "aug", "sep", "oct", "nov", "dec">>

month_full == <<"january", "february", "march", "april", "may", "june", "july",
                "august", "september", "october", "november", "december">>

IsLeap(y) == y % 4 = 0 /\ (y % 100 # 0 \/ y % 400 = 0)

days_in_month_31(y, m) == 31

days_in_month(y, m) ==
    IF m = 2 THEN (IF IsLeap(y) THEN 29 ELSE 28)
    ELSE IF m \in {4, 6, 9, 11} THEN 30 ELSE 31

NoDate == [ok |-> FALSE, y |-> 0, m |-> 0, d |-> 0]

IsBlank(tok) == tok.k = "punct" /\ tok.s = SP

RECURSIVE SkipBlanks(_)
SkipBlanks(text) == IF text # <<>> /\ IsBlank(Head(text)) THEN SkipBlanks(Tail(text)) ELSE text

MonthIn(names, tok) ==
    IF tok.k = "word" /\ \E i \in 1..12 : names[i] = Lower(tok.s)
    THEN CHOOSE i \in 1..12 : names[i] = Lower(tok.s)
    ELSE 0

RECURSIVE strptime_match(_, _, _)
strptime_match(text, fmt, acc) ==
    IF fmt = <<>> THEN (IF text = <<>> THEN acc ELSE NoDate)
    ELSE IF text = <<>> THEN NoDate
    ELSE LET tok == Head(text)
             dir == Head(fmt)
         IN  CASE dir = SP ->
                    IF IsBlank(tok) THEN strptime_match(SkipBlanks(text), Tail(fmt), acc)
                    ELSE NoDate
               [] dir \in {",", "-"} ->
                    IF tok.k = "punct" /\ tok.s = dir
                    THEN strptime_match(Tail(text), Tail(fmt), acc) ELSE NoDate
               [] dir = "%b" ->
                    IF MonthIn(month_abbr, tok) # 0
                    THEN strptime_match(Tail(text), Tail(fmt),
                                        [acc EXCEPT !.m = MonthIn(month_abbr, tok)])
                    ELSE NoDate
               [] dir = "%B" ->
                    IF MonthIn(month_full, tok) # 0
                    THEN strptime_match(Tail(text), Tail(fmt),
                                        [acc EXCEPT !.m = MonthIn(month_full, tok)])
                    ELSE NoDate
               [] dir = "%d" ->
                    IF tok.k = "num" /\ tok.w \in {1, 2} /\ tok.v \in 1..31
                    THEN strptime_match(Tail(text), Tail(fmt), [acc EXCEPT !.d = tok.v])
                    ELSE NoDate
               [] dir = "%m" ->
                    IF tok.k = "num" /\ tok.w \in {1, 2} /\ tok.v \in 1..12
                    THEN strptime_match(Tail(text), Tail(fmt), [acc EXCEPT !.m = tok.v])
                    ELSE NoDate
               [] OTHER ->
                    IF tok.k = "num" /\ tok.w = 4
                    THEN strptime_match(Tail(text), Tail(fmt), [acc EXCEPT !.y = tok.v])
                    ELSE NoDate

strptime(text, fmt) ==
    LET dt == strptime_match(text, fmt, [ok |-> TRUE, y |-> 0, m |-> 0, d |-> 0])
    IN  IF dt.ok /\ dt.y >= 1 /\ dt.d <= days_in_month(dt.y, dt.m) THEN dt ELSE NoDate

(* datetime.isoformat of a date at midnight: YYYY-MM-DDT00:00:00 *)
isoformat(dt) ==
    <<Numeral(4, dt.y), Punct("-"), Numeral(2, dt.m), Punct("-"), Numeral(2, dt.d),
      Word("T00:00:00")>>

formats ==
    << <<"%b", SP, "%d", ",", SP, "%Y">>,
       <<"%B", SP, "%d", ",", SP, "%Y">>,
       <<"%Y", "-", "%m", "-", "%d">> >>

RECURSIVE first_format(_, _)
first_format(text, fmts) ==
    IF fmts = <<>> THEN None
    ELSE IF strptime(text, Head(fmts)).ok THEN Some(isoformat(strptime(text, Head(fmts))))
    ELSE first_format(text, Tail(fmts))

(* extractors.reviews_parser._normalize_date *)
_normalize_date(text) == first_format(text, formats)

(* extractors.questions_parser._normalize_question_date *)
_normalize_question_date(text) == first_format(text, formats)

DateWords == {Word("Jan"), Word("January"), Word("Feb"), Word("february"), Word("May"),
              Word("Foo")}

DateFirst == DateWords \cup {Numeral(4, 2024), Numeral(4, 2023), Numeral(4, 0)}

DateSecond == {Numeral(1, 5), Numeral(2, 5), Numeral(2, 29), Numeral(2, 30), Numeral(2, 31),
               Numeral(2, 32), Numeral(1, 0), Numeral(1, 2), Numeral(2, 13)}

DateThird == {Numeral(4, 2024), Numeral(4, 2023), Numeral(4, 1900), Numeral(2, 29),
              Numeral(1, 5), Numeral(2, 5)}

DateSeps == {<<>>, <<Punct(SP)>>, <<Punct(",")>>, <<Punct("-")>>}

DateTexts ==
    { <<a>> \o s1 \o <<b>> \o s2 \o s3 \o <<c>> :
          a \in DateFirst, s1 \in DateSeps, b \in DateSecond,
          s2 \in DateSeps, s3 \in DateSeps, c \in DateThird }

DateInit ==
    /\ x_fn = "ready"
    /\ x_arg \in DateTexts
    /\ x_res = <<>>

DateReview ==
    /\ "_normalize_date" \notin DOMAIN x_res
    /\ x_fn' = "_normalize_date"
    /\ x_res' = ("_normalize_date" :> _normalize_date(x_arg)) @@ x_res
    /\ UNCHANGED x_arg
    /\ UNCHANGED nonExtract

DateQuestion ==
    /\ "_normalize_question_date" \notin DOMAIN x_res
    /\ x_fn' = "_normalize_question_date"
    /\ x_res' = ("_normalize_question_date" :> _normalize_question_date(x_arg)) @@ x_res
    /\ UNCHANGED x_arg
    /\ UNCHANGED nonExtract

InitDates == DateInit /\ OrchIdle /\ FetchIdle /\ LinkIdle /\ DedupeIdle

NextDates ==
    \/ DateReview
    \/ DateQuestion

SpecDates == InitDates /\ [][NextDates]_vars

(***************************************************************************)
(* The calendar dates a text can denote, read off the text: month name,    *)
(* day, comma, year with blanks after the name and after the comma, or     *)
(* year-month-day with hyphens; the day must exist in that month.          *)
(***************************************************************************)
MonthNumber(tok) ==
    CASE tok.s \in {"Jan", "jan", "January", "january"} -> 1
      [] tok.s \in {"Feb", "feb", "February", "february"} -> 2
      [] tok.s \in {"May", "may"} -> 5
      [] OTHER -> 0

LastDay(y, m) ==
    CASE m \in {1, 3, 5, 7, 8, 10, 12} -> 31
      [] m \in {4, 6, 9, 11} -> 30
      [] OTHER -> IF (y % 4 = 0 /\ y % 100 # 0) \/ y % 400 = 0 THEN 29 ELSE 28

DatesDenoted(text) ==
    LET NoBlank(tok) == ~(tok.k = "punct" /\ tok.s = SP)
        t == SelectSeq(text, NoBlank)
        blanksOk ==
            \E i, j \in 1..Len(text) :
                /\ i > 1 /\ j > i + 1 /\ text[i].s = SP /\ text[j].s = SP
                /\ text[i - 1].k = "word" /\ text[j - 1].s = ","
        named ==
            IF /\ Len(t) = 4 /\ t[1].k = "word" /\ MonthNumber(t[1]) # 0
               /\ t[2].k = "num" /\ t[2].w <= 2 /\ t[3].s = ","
               /\ t[4].k = "num" /\ t[4].w = 4 /\ blanksOk
               /\ text[1].k = "word" /\ text[Len(text)].k = "num"
            THEN {[y |-> t[4].v, m |-> MonthNumber(t[1]), d |-> t[2].v]} ELSE {}
        iso ==
            IF /\ Len(text) = 5 /\ text[1].k = "num" /\ text[1].w = 4 /\ text[2].s = "-"
               /\ text[3].k = "num" /\ text[3].w <= 2 /\ text[4].s = "-"
               /\ text[5].k = "num" /\ text[5].w <= 2
            THEN {[y |-> text[1].v, m |-> text[3].v, d |-> text[5].v]} ELSE {}
    IN  {dt \in named \cup iso :
            dt.y >= 1 /\ dt.m \in 1..12 /\ dt.d >= 1 /\ dt.d <= LastDay(dt.y, dt.m)}

(***************************************************************************)
(* C16: both date normalisers return, for a text in one of the three       *)
(* formats, the ISO-8601 form of the date the text denotes, and None for   *)
(* every other text; they agree on every input.                            *)
(***************************************************************************)
C16_DateNormalisedOrUnrecognised ==
    \A name \in DOMAIN x_res :
        (name \in {"_normalize_date", "_normalize_question_date"}) =>
            LET dates == DatesDenoted(x_arg)
            IN  IF dates = {} THEN x_res[name] = None
                ELSE \E dt \in dates :
                        x_res[name] = Some(<<Numeral(4, dt.y), Punct("-"), Numeral(2, dt.m),
                                             Punct("-"), Numeral(2, dt.d), Word("T00:00:00")>>)

C16_Witness_LeapDayBothAgree ==
    /\ x_arg = <<Word("Feb"), Punct(SP), Numeral(2, 29), Punct(","), Punct(SP), Numeral(4, 2024)>>
    /\ DOMAIN x_res = {"_normalize_date", "_normalize_question_date"}
    /\ x_res["_normalize_date"] =
           Some(<<Numeral(4, 2024), Punct("-"), Numeral(2, 2), Punct("-"), Numeral(2, 29),
                  Word("T00:00:00")>>)
    /\ x_res["_normalize_question_date"] = x_res["_normalize_date"]

(***************************************************************************)
(* C17: under both entry points every record of the dataset is the record  *)
(* of its own page and URL alone, whatever was processed before it, and a  *)
(* step never changes or removes a record already appended.                *)
(***************************************************************************)
RecordOfItsPage ==
    /\ Len(dataset) = Len(RecordedFetches)
    /\ \A i \in 1..Len(dataset) :
           LET f == RecordedFetches[i]
           IN  dataset[i] = [source_url |-> f.url, ld |-> web[f.url].ld]

RecordsKept ==
    /\ Len(dataset') >= Len(dataset)
    /\ \A i \in 1..Len(dataset) : dataset'[i] = dataset[i]

SpecLive == Init /\ [][Next]_vars /\ WF_vars(Next)

Occurrences(u) == Cardinality({i \in 1..Len(product_urls) : product_urls[i] = u})

WorklistBounded ==
    /\ (pc \in {"products", "done"} \/ (pc = "nothing" /\ fetched # <<>>)) =>
           \A u \in Range(product_urls) :
               Occurrences(u) <= 1 + Cardinality(processed_product_urls \ {u})
    /\ (pc \in {"done", "nothing"}) => pi > Len(product_urls)

(***************************************************************************)
(* C18: every run ends, whatever the fetches and parsers do and however    *)
(* the pages link to each other; while the product loop runs a URL occurs  *)
(* in the worklist at most once plus once per other parsed page, and a run *)
(* that ends normally has no work left.                                    *)
(***************************************************************************)
C18_WorklistLoopTerminates == <>Terminated /\ []WorklistBounded

C18_Witness_MutualLinksExpanded ==
    /\ entry = "main" /\ include_similar /\ pc = "done" /\ web = WebC
    /\ \E i, j \in 1..Len(fetched) :
           /\ i < j
           /\ fetched[i].url = P1 /\ fetched[i].added = <<P2>>
           /\ fetched[j].url = P2 /\ fetched[j].recorded /\ fetched[j].added = <<>>

(***************************************************************************)
(* The URLs a run is asked to fetch as products: the trimmed seeds, the    *)
(* product links of the category pages it fetched and, with the flag on,   *)
(* the similar-product links of the pages it parsed.                       *)
(***************************************************************************)
SeedUrls ==
    LET given == IF entry = "main" THEN payload.product_urls
                 ELSE PyOr(payload.product_urls, payload.products)
    IN  {strip(given.items[i]) : i \in 1..Len(given.items)} \ {<<>>}

CategoryExpanded ==
    UNION { Range(extract_product_links(web[fetched[i].url], fetched[i].url).links) :
                i \in {k \in 1..Len(fetched) :
                          fetched[k].as = "category" /\ fetched[k].html = "page"} }

SimilarDiscovered ==
    IF payload.include_similar
    THEN UNION { Range(extract_similar_product_links(web[fetched[i].url], fetched[i].url).links) :
                     i \in {k \in 1..Len(fetched) :
                               fetched[k].as = "product" /\ fetched[k].recorded} }
    ELSE {}

FetchedAsProduct == {fetched[i].url : i \in ProductFetches}

(***************************************************************************)
(* C19: a URL is fetched as a product only if it is a trimmed seed, a      *)
(* product link of a fetched category page or, with the flag on, a         *)
(* similar-product link of a parsed page; and a run that ends normally has *)
(* fetched every one of these.                                             *)
(***************************************************************************)
C19_FetchedSetIsSeedsPlusExpansions ==
    /\ FetchedAsProduct \subseteq (SeedUrls \cup CategoryExpanded \cup SimilarDiscovered)
    /\ (pc \in {"done", "nothing"}) =>
           (SeedUrls \cup CategoryExpanded \cup SimilarDiscovered) \subseteq FetchedAsProduct

(***************************************************************************)
(* Review and question scanning with a cap.  A container of the page       *)
(* passes or fails the scanner's heuristic (a rating element for a review, *)
(* a question body or the word "question" for a question) and yields or    *)
(* does not yield an entry with text (review text or title, question       *)
(* text).  A scan returns the entries kept, by the container's position,   *)
(* and the position of the last container it looked at.                    *)
(***************************************************************************)
MaxContainers == 3

Container(heuristic, text) == [heuristic |-> heuristic, text |-> text]

CapReached(cap, n) == cap # None /\ n >= Val(cap)

RECURSIVE scan_containers(_, _, _, _)
scan_containers(containers, cap, i, kept) ==
    IF i > Len(containers) THEN [result |-> kept, scanned |-> Len(containers)]
    ELSE IF ~containers[i].heuristic THEN scan_containers(containers, cap, i + 1, kept)
    ELSE LET kept2 == IF containers[i].text THEN Append(kept, i) ELSE kept
         IN  IF CapReached(cap, Len(kept2)) THEN [result |-> kept2, scanned |-> i]
             ELSE scan_containers(containers, cap, i + 1, kept2)

(* extractors.reviews_parser.parse_reviews *)
parse_reviews(containers, max_reviews) == scan_containers(containers, max_reviews, 1, <<>>)

(* extractors.questions_parser.parse_questions *)
parse_questions(question_blocks, max_questions) ==
    scan_containers(question_blocks, max_questions, 1, <<>>)

Caps == {None, Some(0), Some(1), Some(2)}

CapInit ==
    /\ x_fn = "ready"
    /\ \E containers \in SeqsUpTo({Container(h, t) : h, t \in BOOLEAN}, MaxContainers),
          cap \in Caps :
           x_arg = [containers |-> containers, cap |-> cap]
    /\ x_res = <<>>

CapReviews ==
    /\ x_fn = "ready"
    /\ x_fn' = "parse_reviews"
    /\ x_res' = parse_reviews(x_arg.containers, x_arg.cap)
    /\ UNCHANGED x_arg
    /\ UNCHANGED nonExtract

CapQuestions ==
    /\ x_fn = "ready"
    /\ x_fn' = "parse_questions"
    /\ x_res' = parse_questions(x_arg.containers, x_arg.cap)
    /\ UNCHANGED x_arg
    /\ UNCHANGED nonExtract

InitCaps == CapInit /\ OrchIdle /\ FetchIdle /\ LinkIdle /\ DedupeIdle

NextCaps ==
    \/ CapReviews
    \/ CapQuestions

SpecCaps == InitCaps /\ [][NextCaps]_vars

Accepted ==
    LET Idx == [i \in 1..Len(x_arg.containers) |-> i]
        Ok(i) == x_arg.containers[i].heuristic /\ x_arg.containers[i].text
    IN  SelectSeq(Idx, Ok)

(***************************************************************************)
(* C20: with a cap, 0 included, parse_reviews and parse_questions return   *)
(* at most that many entries and look at no container after the one that   *)
(* reached the cap; with no cap they return every accepted container.      *)
(***************************************************************************)
C20_CapBoundsResult ==
    (x_fn \in {"parse_reviews", "parse_questions"}) =>
        IF x_arg.cap = None
        THEN x_res.result = Accepted
        ELSE /\ Len(x_res.result) <= Val(x_arg.cap)
             /\ x_res.result = SubSeq(Accepted, 1, Len(x_res.result))
             /\ (x_res.scanned < Len(x_arg.containers)) =>
                    /\ Len(x_res.result) >= Val(x_arg.cap)
                    /\ x_res.result # <<>> => x_res.scanned = x_res.result[Len(x_res.result)]

(***************************************************************************)
(* C21: in both entry points a product page that was fetched always gives  *)
(* a record: an extractor that meets metadata of an unexpected shape (a    *)
(* non-object entry in the offers list, a non-object priceSpecification, a *)
(* non-string name) does not raise and the record is still assembled.      *)
(***************************************************************************)
C21_ExtractorFailureKeepsRecord ==
    \A i \in 1..Len(fetched) :
        (fetched[i].as = "product" /\ fetched[i].html = "page") =>
            (fetched[i].recorded /\ ~fetched[i].crashed)

(***************************************************************************)
(* The recommendation flag of a review container (reviews_parser.py,       *)
(* _parse_review_container).  The marker text is a sequence of characters; *)
(* Python's "in" on strings is Contains on character sequences, and        *)
(* str.lower() is Lower on every character.                                *)
(***************************************************************************)
MaxWords == 3

SPACE == " "

yes == <<"y", "e", "s">>
no == <<"n", "o">>
recommended == <<"r", "e", "c", "o", "m", "m", "e", "n", "d", "e", "d">>
not_recommended == <<"n", "o", "t", SPACE>> \o recommended

RecWords ==
    { <<"Y", "e", "s">>, <<"N", "o">>, <<"N", "o", "t">>,
      <<"R">> \o Tail(recommended), recommended,
      <<"m", "a", "y", "b", "e">>, <<"k", "n", "o", "w", "n">> }

RECURSIVE JoinWords(_)
JoinWords(words) ==
    IF Len(words) = 0 THEN <<>>
    ELSE IF Len(words) = 1 THEN words[1]
    ELSE words[1] \o <<SPACE>> \o JoinWords(Tail(words))

(* The marker element: absent, or present with the text of 0..MaxWords words. *)
RecMarkers ==
    {None} \cup
    { Some(JoinWords(ws)) : ws \in UNION { [1..n -> RecWords] : n \in 0..MaxWords } }

is_recommended(recommended_tag) ==
    IF recommended_tag = None THEN None
    ELSE LET rec_text == LowerText(Val(recommended_tag))
         IN  IF Contains(yes, rec_text) \/ Contains(recommended, rec_text)
             THEN Some(TRUE)
             ELSE IF Contains(no, rec_text) \/ Contains(not_recommended, rec_text)
             THEN Some(FALSE)
             ELSE None

RecInit == x_fn = "ready" /\ x_arg \in RecMarkers /\ x_res = <<>>

RecParse ==
    /\ x_fn = "ready"
    /\ x_fn' = "_parse_review_container"
    /\ x_res' = is_recommended(x_arg)
    /\ UNCHANGED <<x_arg, nonExtract>>

InitRec == RecInit /\ OrchIdle /\ FetchIdle /\ LinkIdle /\ DedupeIdle
NextRec == RecParse
SpecRec == InitRec /\ [][NextRec]_vars

(* What the marker text says, whatever its letter case. *)
SaysYes(text) ==
    Contains(yes, LowerText(text)) \/ Contains(recommended, LowerText(text))
SaysNo(text) ==
    Contains(no, LowerText(text)) \/ Contains(not_recommended, LowerText(text))

(***************************************************************************)
(* C22: the recommendation flag is tri-state.  A marker text that says     *)
(* "not recommended" gives false; a text with "yes" or "recommended" and   *)
(* nothing negative gives true; a text with "no" and nothing positive      *)
(* gives false; no marker, or a text with no keyword, gives None.  Letter  *)
(* case does not matter.                                                   *)
(***************************************************************************)
C22_RecommendationTriState ==
    x_fn = "_parse_review_container" =>
        IF x_arg = None THEN x_res = None
        ELSE LET text == Val(x_arg)
             IN  /\ Contains(not_recommended, LowerText(text)) => x_res = Some(FALSE)
                 /\ (SaysYes(text) /\ ~SaysNo(text)) => x_res = Some(TRUE)
                 /\ (SaysNo(text) /\ ~SaysYes(text)) => x_res = Some(FALSE)
                 /\ (~SaysYes(text) /\ ~SaysNo(text)) => x_res = None

(***************************************************************************)
(* Variant lists.  The product object's "isVariantOf" and "offers" values  *)
(* are absent, one object or a list; a list entry is an object with an     *)
(* optional sku and productID, or something that is not an object.  A      *)
(* variant id is a string taken from the metadata or "variant-{n}".        *)
(***************************************************************************)
MaxVariants == 2

VariantEntry(sku, productID) == [dict |-> TRUE, sku |-> sku, productID |-> productID]
NotAVariantObject == [dict |-> FALSE, sku |-> None, productID |-> None]

VAbsent == [kind |-> "absent", items |-> <<>>]
VDict(e) == [kind |-> "dict", items |-> <<e>>]
VList(es) == [kind |-> "list", items |-> es]

GivenId(s) == [kind |-> "given", s |-> s, n |-> 0]
SynthId(idx) == [kind |-> "variant-", s |-> "", n |-> idx]

(* Python's "a or b" on two optional strings. *)
Or(a, b) == IF a # None THEN a ELSE b

Truthy(v) == v.kind = "dict" \/ (v.kind = "list" /\ v.items # <<>>)

Variants(raised, ids) == [raised |-> raised, variant_ids |-> ids]

(* ProductParser._build_variants(product_json), parser/product_parser.py. *)
_build_variants(product_json) ==
    LET offers == product_json.offers
        id(offer) ==
            LET given == Or(offer.sku, offer.productID)
            IN  IF given # None THEN Some(GivenId(Val(given))) ELSE None
    IN  IF offers.kind = "absent" THEN Variants(FALSE, <<>>)
        ELSE IF \E i \in 1..Len(offers.items) : ~offers.items[i].dict
        THEN Variants(TRUE, <<>>)
        ELSE Variants(FALSE, [i \in 1..Len(offers.items) |-> id(offers.items[i])])

RECURSIVE variants_from_ld(_, _)
variants_from_ld(variants_ld, idx) ==
    IF idx >= Len(variants_ld) THEN <<>>
    ELSE LET v == variants_ld[idx + 1]
             rest == variants_from_ld(variants_ld, idx + 1)
         IN  IF ~v.dict THEN rest
             ELSE LET given == Or(v.sku, v.productID)
                  IN  <<Some(IF given # None THEN GivenId(Val(given)) ELSE SynthId(idx))>>
                      \o rest

(* parse_product_variants(soup), extractors/product_parser.py. *)
parse_product_variants(product_ld, tile_candidates) ==
    LET variants_ld ==
            IF Truthy(product_ld.isVariantOf) THEN product_ld.isVariantOf
            ELSE product_ld.offers
        variants ==
            IF variants_ld.kind = "list" THEN variants_from_ld(variants_ld.items, 0)
            ELSE <<>>
    IN  IF variants # <<>> THEN Variants(FALSE, variants)
        ELSE Variants(FALSE, [i \in 1..tile_candidates |-> Some(SynthId(i - 1))])

VariantEntries ==
    {NotAVariantObject} \cup
    { VariantEntry(sku, productID) :
        sku \in {None, Some("A"), Some("B")}, productID \in {None, Some("A")} }

VariantLists == UNION { [1..n -> VariantEntries] : n \in 0..MaxVariants }

VariantPages ==
    [ isVariantOf : {VAbsent, VList(<<>>), VList(<<VariantEntry(None, None)>>)},
      offers : {VAbsent} \cup { VList(es) : es \in VariantLists }
               \cup { VDict(e) : e \in VariantEntries \ {NotAVariantObject} },
      tiles : {0, 2} ]

VariantInit == x_fn = "ready" /\ x_arg \in VariantPages /\ x_res = <<>>

VariantMain ==
    /\ x_fn = "ready"
    /\ x_fn' = "_build_variants"
    /\ x_res' = _build_variants(x_arg)
    /\ UNCHANGED <<x_arg, nonExtract>>

VariantRunner ==
    /\ x_fn = "ready"
    /\ x_fn' = "parse_product_variants"
    /\ x_res' = parse_product_variants(x_arg, x_arg.tiles)
    /\ UNCHANGED <<x_arg, nonExtract>>

InitVariants == VariantInit /\ OrchIdle /\ FetchIdle /\ LinkIdle /\ DedupeIdle
NextVariants == VariantMain \/ VariantRunner
SpecVariants == InitVariants /\ [][NextVariants]_vars

(***************************************************************************)
(* C23: in the variant list either extractor returns, every variant_id is  *)
(* non-empty (an entry with no sku and no productID has a synthesized one) *)
(* and no two variants have the same variant_id.                           *)
(***************************************************************************)
C23_VariantIdsPresentAndDistinct ==
    x_fn \in {"_build_variants", "parse_product_variants"} =>
        LET ids == x_res.variant_ids
        IN  /\ \A i \in 1..Len(ids) : ids[i] # None
            /\ \A i, j \in 1..Len(ids) : ids[i] = ids[j] => i = j

(***************************************************************************)
(* The product id.  A URL is a sequence of characters after the host; the  *)
(* two regular expressions are searched the way re.search does, leftmost   *)
(* match first, \d+ taking the longest run of digits.                      *)
(***************************************************************************)
MaxUrlChars == 4

UrlHost == "https://www.sephora.com"
UrlChars == {"/", "P", "4", "5", "-", "x"}
UrlDigits == {"4", "5"}

RECURSIVE DigitRun(_, _)
(* The longest run of digits of url that starts at position i. *)
DigitRun(url, i) ==
    IF i > Len(url) \/ url[i] \notin UrlDigits THEN <<>>
    ELSE <<url[i]>> \o DigitRun(url, i + 1)

(* A match of P\d+ starts at position i. *)
PDigitsAt(url, i) ==
    i < Len(url) /\ url[i] = "P" /\ url[i + 1] \in UrlDigits

(* PRODUCT_ID_RE = (P\d+), utils_format.py; infer_product_id_from_url(url). *)
infer_product_id_from_url(url) ==
    IF \E i \in 1..Len(url) : PDigitsAt(url, i)
    THEN LET i == CHOOSE k \in 1..Len(url) :
                      PDigitsAt(url, k) /\ \A m \in 1..(k - 1) : ~PDigitsAt(url, m)
         IN  Some(<<"P">> \o DigitRun(url, i + 1))
    ELSE None

(* A match of /(P\d+) starts at position i. *)
SlashPDigitsAt(url, i) == url[i] = "/" /\ PDigitsAt(url, i + 1)

(* re.search(r"/(P\d+)", source_url) and match.group(1), parser/product_parser.py. *)
search_slash_product_id(source_url) ==
    IF \E i \in 1..Len(source_url) : SlashPDigitsAt(source_url, i)
    THEN LET i == CHOOSE k \in 1..Len(source_url) :
                      SlashPDigitsAt(source_url, k)
                      /\ \A m \in 1..(k - 1) : ~SlashPDigitsAt(source_url, m)
         IN  Some(<<"P">> \o DigitRun(source_url, i + 2))
    ELSE None

(* info.id of ProductParser._build_product_info(soup, product_json, source_url). *)
main_info_id(product_json, source_url) ==
    LET id == Or(product_json.sku, product_json.productID)
    IN  IF id = None THEN search_slash_product_id(source_url) ELSE id

(* info["id"] of parse_product_info(soup, url). *)
runner_info_id(product_ld, url) ==
    LET product_id == Or(product_ld.sku, product_ld.productID)
        inferred == IF product_id = None THEN infer_product_id_from_url(url)
                    ELSE product_id
    IN  IF inferred = None THEN Some(<<>>) ELSE inferred

IdUrls ==
    { <<UrlHost>> \o tail :
        tail \in UNION { [1..n -> UrlChars] : n \in 0..MaxUrlChars } }

IdMetadata ==
    [ sku : {None, Some(<<"s", "k", "u">>)},
      productID : {None, Some(<<"p", "i", "d">>)} ]

IdInit ==
    /\ x_fn = "ready"
    /\ x_arg \in [product : IdMetadata, url : IdUrls]
    /\ x_res = <<>>

IdMain ==
    /\ x_fn = "ready"
    /\ x_fn' = "_build_product_info"
    /\ x_res' = main_info_id(x_arg.product, x_arg.url)
    /\ UNCHANGED <<x_arg, nonExtract>>

IdRunner ==
    /\ x_fn = "ready"
    /\ x_fn' = "parse_product_info"
    /\ x_res' = runner_info_id(x_arg.product, x_arg.url)
    /\ UNCHANGED <<x_arg, nonExtract>>

InitIds == IdInit /\ OrchIdle /\ FetchIdle /\ LinkIdle /\ DedupeIdle
NextIds == IdMain \/ IdRunner
SpecIds == InitIds /\ [][NextIds]_vars

(* id is a product-ID token of url: the letter P followed by digits. *)
IsUrlToken(id, url) ==
    /\ Len(id) >= 2
    /\ id[1] = "P"
    /\ \A k \in 2..Len(id) : id[k] \in UrlDigits
    /\ Contains(id, url)

UrlHasToken(url) == \E i \in 1..Len(url) : PDigitsAt(url, i)

(***************************************************************************)
(* C24: info.id is the metadata's sku, else its productID, whenever the    *)
(* metadata has one; when it has neither and the URL contains a product-ID *)
(* token (P followed by digits), info.id is such a token of the URL.  So   *)
(* the id is non-empty whenever it can be derived.                         *)
(***************************************************************************)
C24_IdFromMetadataThenUrl ==
    x_fn \in {"_build_product_info", "parse_product_info"} =>
        LET given == Or(x_arg.product.sku, x_arg.product.productID)
        IN  /\ given # None => x_res = given
            /\ (given = None /\ UrlHasToken(x_arg.url)) =>
                   (x_res # None /\ IsUrlToken(Val(x_res), x_arg.url))

(* f, a number of hundredths, has at most two decimal digits. *)
TwoDecimals(f) == f.n % f.d = 0

ThreeRatings445 ==
    /\ Len(x_arg.reviews) = 3
    /\ x_arg.reviews[1].rating = Some(400)
    /\ x_arg.reviews[2].rating = Some(400)
    /\ x_arg.reviews[3].rating = Some(500)

(***************************************************************************)
(* C25: whichever statistics function is used, the average_rating it       *)
(* returns is rounded to two decimal places; the ratings 4, 4, 5 give      *)
(* 4.33.                                                                   *)
(***************************************************************************)
C25_AverageRoundedToTwoDecimals ==
    (StatsCalled /\ x_res.average_rating # None) =>
        /\ TwoDecimals(Val(x_res.average_rating))
        /\ ThreeRatings445 => FracEq(Val(x_res.average_rating), Frac(433, 1))

(***************************************************************************)
(* C26: over a non-empty review list both statistics functions return, as  *)
(* helpful and not-helpful vote totals, the sums of the reviews' helpful   *)
(* and not-helpful vote counts (a review without a count adds nothing).    *)
(***************************************************************************)
C26_VoteTotalsAreSums ==
    (StatsCalled /\ x_arg.reviews # <<>>) =>
        LET votes(field) ==
                Sum([i \in 1..Len(x_arg.reviews) |->
                        IF x_arg.reviews[i][field] = None THEN 0
                        ELSE Val(x_arg.reviews[i][field])])
        IN  /\ x_res.helpful_vote_count = Some(votes("helpful_vote_count"))
            /\ x_res.not_helpful_vote_count = Some(votes("not_helpful_vote_count"))

(***************************************************************************)
(* Malformed metadata blocks.  The text of a script element is empty, is   *)
(* JSON ("json"), is several JSON values with commas between them that     *)
(* parse only inside array brackets ("concatenated"), or parses neither    *)
(* way ("garbage").  data is what the successful parse returns.            *)
(***************************************************************************)
MaxBlocks == 3

RawScript(form, data) == [form |-> form, data |-> data]

(* json.loads(raw) raises JSONDecodeError. *)
json_loads_raises(raw) == raw.form # "json"

(* json.loads(f"[{raw}]") raises. *)
json_loads_wrapped_raises(raw) == raw.form # "concatenated"

(* The loop of utils.html_utils.extract_json_ld_objects up to the parsed   *)
(* data of each script that is kept.                                       *)
RECURSIVE json_ld_data(_)
json_ld_data(scripts) ==
    IF scripts = <<>> THEN <<>>
    ELSE LET raw == Head(scripts)
             rest == json_ld_data(Tail(scripts))
         IN  IF raw.form = "empty" THEN rest
             ELSE IF ~json_loads_raises(raw) THEN <<raw.data>> \o rest
             ELSE IF ~json_loads_wrapped_raises(raw) THEN <<raw.data>> \o rest
             ELSE rest

(* extractors.product_parser._extract_ld_json_blocks(soup). *)
RECURSIVE _extract_ld_json_blocks(_)
_extract_ld_json_blocks(scripts) ==
    IF scripts = <<>> THEN <<>>
    ELSE LET raw == Head(scripts)
             rest == _extract_ld_json_blocks(Tail(scripts))
         IN  IF raw.form = "empty" THEN rest
             ELSE IF ~json_loads_raises(raw) THEN <<raw.data>> \o rest
             ELSE rest

(* The objects _find_product_ld visits in the blocks, in its order. *)
block_objects(blocks) ==
    LET IsDict(item) == item.dict
    IN  Concat([i \in 1..Len(blocks) |-> SelectSeq(blocks[i].items, IsDict)])

ObjA == Obj(TypeStr("Thing"), "a")
ObjB == Obj(TypeStr("Product"), "b")

RawScripts ==
    { RawScript("json", ScriptDict(ObjA)),
      RawScript("json", ScriptDict(ObjB)),
      RawScript("json", ScriptList(<<ObjB, NotAnObject, ObjA>>)),
      RawScript("concatenated", ScriptList(<<ObjA, ObjB>>)),
      RawScript("garbage", ScriptList(<<>>)),
      RawScript("empty", ScriptList(<<>>)) }

BlocksInit ==
    /\ x_fn = "ready"
    /\ x_arg \in SeqsUpTo(RawScripts, MaxBlocks)
    /\ x_res = <<>>

BlocksMain ==
    /\ x_fn = "ready"
    /\ x_fn' = "extract_json_ld_objects"
    /\ x_res' = extract_json_ld_objects(json_ld_data(x_arg))
    /\ UNCHANGED <<x_arg, nonExtract>>

BlocksRunner ==
    /\ x_fn = "ready"
    /\ x_fn' = "_extract_ld_json_blocks"
    /\ x_res' = block_objects(_extract_ld_json_blocks(x_arg))
    /\ UNCHANGED <<x_arg, nonExtract>>

InitBlocks == BlocksInit /\ OrchIdle /\ FetchIdle /\ LinkIdle /\ DedupeIdle
NextBlocks == BlocksMain \/ BlocksRunner
SpecBlocks == InitBlocks /\ [][NextBlocks]_vars

(* The objects a block contributes: those of its JSON, those of its text   *)
(* inside array brackets when only that parses, none otherwise.            *)
Contribution(raw) ==
    LET IsObject(item) == item.dict
    IN  IF raw.form \in {"json", "concatenated"}
        THEN SelectSeq(raw.data.items, IsObject) ELSE <<>>

(***************************************************************************)
(* C27: a scan of the metadata blocks returns, in document order, the      *)
(* objects of every block that parses directly, the objects of every block *)
(* that parses only once wrapped in array brackets, and nothing for a      *)
(* block that parses neither way; the blocks before and after a malformed  *)
(* one still contribute.                                                   *)
(***************************************************************************)
C27_MalformedBlockRepairedOrSkipped ==
    x_fn \in {"extract_json_ld_objects", "_extract_ld_json_blocks"} =>
        x_res = Concat([i \in 1..Len(x_arg) |-> Contribution(x_arg[i])])

(***************************************************************************)
(* Question lists.  The product object's "questions"/"qa" value is absent  *)
(* or a list whose entries are objects with optional "question" and "text" *)
(* strings, or not objects; the DOM has sections that mention the word     *)
(* "question" or not, with qa_question elements whose text may be empty.   *)
(* A question of a result is its text: None, Some("") or Some of a text.   *)
(***************************************************************************)
MaxQuestions == 2

QEntry(question, text) == [dict |-> TRUE, question |-> question, text |-> text]
NotAQuestionObject == [dict |-> FALSE, question |-> None, text |-> None]

Section(mentions_question, q_els) ==
    [mentions_question |-> mentions_question, q_els |-> q_els]

(* Python's "a or b" on two optional strings, the empty string being falsy. *)
OrText(a, b) == IF a # None /\ Val(a) # "" THEN a ELSE b

(* questions_extractor._parse_questions_from_json(product_json) *)
_parse_questions_from_json(product_json) ==
    LET q_and_a == IF Truthy(product_json.questions) THEN product_json.questions
                   ELSE product_json.qa
        IsDict(q) == q.dict
        qs == SelectSeq(q_and_a.items, IsDict)
    IN  IF q_and_a.kind = "list"
        THEN [i \in 1..Len(qs) |-> OrText(qs[i].question, qs[i].text)]
        ELSE <<>>

(* questions_extractor._parse_questions_from_dom(soup) *)
_parse_questions_from_dom(sections) ==
    LET Qualifies(sec) == sec.mentions_question /\ sec.q_els # <<>>
        qa_sections == SelectSeq(sections, Qualifies)
    IN  Concat([i \in 1..Len(qa_sections) |->
                   [k \in 1..Len(qa_sections[i].q_els) |-> Some(qa_sections[i].q_els[k])]])

(* questions_extractor.extract_questions(soup, product_json) *)
extract_questions(sections, product_json) ==
    LET questions == IF product_json.present THEN _parse_questions_from_json(product_json)
                     ELSE <<>>
    IN  IF questions = <<>> THEN _parse_questions_from_dom(sections) ELSE questions

(* The "question" values of questions_parser.parse_questions(soup): the    *)
(* text _parse_question_block cleaned for each block the scan kept.        *)
parse_questions_texts(question_blocks) ==
    LET kept == parse_questions(question_blocks, None).result
    IN  [i \in 1..Len(kept) |->
            IF question_blocks[kept[i]].text THEN Some("Q") ELSE Some("")]

QEntries ==
    {NotAQuestionObject} \cup
    { QEntry(q, t) : q \in {None, Some(""), Some("Q")}, t \in {None, Some("T")} }

QProducts ==
    { [present |-> FALSE, questions |-> VAbsent, qa |-> VAbsent] } \cup
    { [present |-> TRUE, questions |-> qs, qa |-> VAbsent] :
        qs \in {VAbsent} \cup { VList(es) : es \in SeqsUpTo(QEntries, MaxQuestions) } } \cup
    { [present |-> TRUE, questions |-> VList(<<>>), qa |-> VList(<<QEntry(None, Some("T"))>>)] }

QSections ==
    SeqsUpTo({ Section(m, els) : m \in BOOLEAN, els \in SeqsUpTo({"", "Q"}, MaxQuestions) }, 1)

QBlocks == SeqsUpTo({ Container(h, t) : h, t \in BOOLEAN }, MaxQuestions)

QuestionsInit ==
    /\ x_fn = "ready"
    /\ x_arg \in [product_json : QProducts, sections : QSections, blocks : QBlocks]
    /\ x_res = <<>>

QuestionsMain ==
    /\ x_fn = "ready"
    /\ x_fn' = "extract_questions"
    /\ x_res' = extract_questions(x_arg.sections, x_arg.product_json)
    /\ UNCHANGED <<x_arg, nonExtract>>

QuestionsRunner ==
    /\ x_fn = "ready"
    /\ x_fn' = "parse_questions"
    /\ x_res' = parse_questions_texts(x_arg.blocks)
    /\ UNCHANGED <<x_arg, nonExtract>>

InitQuestions == QuestionsInit /\ OrchIdle /\ FetchIdle /\ LinkIdle /\ DedupeIdle
NextQuestions == QuestionsMain \/ QuestionsRunner
SpecQuestions == InitQuestions /\ [][NextQuestions]_vars

(***************************************************************************)
(* C28: every question of an extracted question list has a non-empty       *)
(* question text, whether the list came from the structured metadata or    *)
(* from the DOM, on either entry point.                                    *)
(***************************************************************************)
C28_QuestionTextNonEmpty ==
    x_fn \in {"extract_questions", "parse_questions"} =>
        \A i \in 1..Len(x_res) : x_res[i] # None /\ Val(x_res[i]) # ""

FailedAttempts == Len(SelectSeq(responses, LAMBDA o : ~IsOk(o)))

(***************************************************************************)
(* C29: fetch_html backs off linearly.  The k-th wait is backoff_factor *  *)
(* k and follows the failed attempt k; there is one wait per failed        *)
(* attempt except the attempt number max_retries, none after a success;    *)
(* a fetch whose attempts all failed has waited backoff_factor * (1 + 2 +  *)
(* ... + (max_retries - 1)) in total; with max_retries = 0 no request is   *)
(* made and the result is absent.                                          *)
(***************************************************************************)
C29_LinearBackoff ==
    /\ \A k \in 1..Len(sleeps) : sleeps[k] = backoff_factor * k
    /\ Len(sleeps) = IF FailedAttempts < max_retries THEN FailedAttempts
                     ELSE IF max_retries > 0 THEN max_retries - 1 ELSE 0
    /\ (fpc = "returned" /\ fetch_result = "none" /\ max_retries > 0) =>
           2 * Sum(sleeps) = backoff_factor * (max_retries - 1) * max_retries
    /\ max_retries = 0 =>
           (responses = <<>> /\ sleeps = <<>> /\ fetch_result = "none")

C29_Witness_TwoWaitsThenAbsent ==
    /\ fpc = "returned"
    /\ fetch_result = "none"
    /\ max_retries = 3
    /\ backoff_factor = 5
    /\ responses = <<"exc", "404", "404">>
    /\ sleeps = <<5, 10>>

(***************************************************************************)
(* C30: at every point of a run of either entry point, no two records of   *)
(* the dataset have the same product URL string.                           *)
(***************************************************************************)
C30_OneRecordPerUrl ==
    \A i, j \in 1..Len(dataset) :
        dataset[i].source_url = dataset[j].source_url => i = j

(* A finished main run whose worklist held a URL twice (queued as a        *)
(* similar product while still pending) and that recorded two products.    *)
C30_Witness_QueuedTwiceRecordedOnce ==
    /\ entry = "main"
    /\ pc = "done"
    /\ Len(dataset) >= 2
    /\ \E i, j \in 1..Len(product_urls) : i < j /\ product_urls[i] = product_urls[j]

====
